---- MODULE Spec2Model ----
(***************************************************************************)
(* Dispatch engine of Apps_script.py: the campaign orchestrator            *)
(* (MailerApp), the batch worker thread (OptimizedEmailSenderThread), the  *)
(* job-queue manager (HighPerformanceJobQueue) and the token-bucket rate   *)
(* limiter (AdvancedRateLimiter).                                          *)
(*                                                                         *)
(* Threads: the control path is the Qt event loop of the main thread; its  *)
(* handlers run one at a time (ctl = "idle" between handlers).  Each batch *)
(* worker is a thread of its own (field st is its position in run()), and  *)
(* every submitted send task runs on a pool thread (task[j]).              *)
(***************************************************************************)
EXTENDS Integers, Sequences, FiniteSets, TLC

\* ---- bounds of the model ----
MaxJobs == 3          \* jobs ever prepared (job ids are 1..MaxJobs)
MaxBatchSize == 2     \* batch_size_for_main_workers ranges over 1..MaxBatchSize
MaxConcurrency == 2   \* max_concurrent_sends_per_batch_worker ranges over 1..MaxConcurrency
MaxTimers == 1        \* pending dispatch timers a resume click may add to
MaxClicks == 4        \* clicks of the user on the prepare, start and pause/resume buttons
MaxStopClicks == 1    \* clicks of the user on the stop button
MaxJobsWithStop == 2  \* jobs ever prepared in the runs where the user may pause, resume and stop
MaxTime == 2          \* clock ticks of the rate-limiter runs
MaxRate == 2          \* configured rates range over 1..MaxRate (token units per tick)
MaxBurst == 2         \* configured burst sizes range over 0..MaxBurst (tokens)
MaxTestWorkers == 1   \* test-send workers running at a time
MaxRows == 2          \* data rows of one prepare click with custom headers
MaxRecipients == 1    \* candidates in one recipient field
MaxSpintaxLen == 4    \* characters of a text given to process_spintax_in_text, the examples apart
MaxSpintaxOptions == 3 \* values random.choice is drawn from (index into the options)
MaxLimiters == 3      \* AdvancedRateLimiter objects constructed for the pool in one run
MaxPoolWorkers == 2   \* batch workers that load an SMTP job while the server file is reloaded
MaxSpintaxChoices == 2 \* random draws supplied to one call
MaxTemplateLen == 2   \* tokens of one template
MaxTimeout == 2       \* acquire timeouts range over 0..MaxTimeout (ticks)
MaxValueLen == 2      \* characters of an enumerated value of a data row
MaxRandomCalls == 2   \* generate_random_string calls with a draw of their own in one job
MaxDrawIndex == 2     \* indices random.choice draws from a character set
NumCallers == 2       \* send tasks that call acquire on the same limiter
TokenScale == 4       \* token units per token (tokens is real-valued in the source)

\* ---- constants of the program ----
MinRate == 2          \* max(emails_per_second, 0.1): the minimum rate, in token units per tick (a tick of 5 s)
MinBurst == 1         \* max(burst_size, 1)

JobIds == 1..MaxJobs

VARIABLES
    email_job_queue,                  \* MailerApp.email_job_queue (sequence of job ids)
    jobs_prepared,                    \* number of jobs created so far (next job id - 1)
    current_job_index_for_dispatch,
    active_batch_send_workers,        \* list of worker ids
    queue_processing_active,
    is_paused_flag,
    total_emails_processed_overall,
    total_emails_successful_overall,
    batch_size_for_main_workers,
    max_concurrent_sends_per_batch_worker,
    pending_timers,                   \* QTimer.singleShot(dispatch_next...) not yet fired
    pending_signals,                  \* queued send_finished_signal events
    ctl,                              \* position of the control path
    stop_list,                        \* all_workers_to_signal_stop still to be waited for
    bw,                               \* the batch workers, keyed by the first job id of the batch
    task,                             \* state of the pool task (future) of every job
    sent,                             \* times the job was passed to a transport function
    transport_ok,                     \* transport calls that returned success since the counters were reset
    completed_emitted,                \* completed_in_batch of the finished signals emitted since the counters were reset
    jobs_handed,                      \* jobs of the batches handed to batch workers since the counters were reset
    finalized,                        \* finalize_overall_queue_processing ran since the last prepare/start
    last_stop,                        \* the stop() since the last prepare: none, mid_campaign, other
    clicks,                           \* clicks on the prepare, start and pause/resume buttons so far
    stop_clicks,                      \* clicks on the stop button so far
    last_handler,                     \* whether the last handler of the control path was a dispatch under pause
    pause_history,                    \* none, paused_in_batch1 (of 3), resumed: the pause clicks of this run
    job_type,                         \* the 'type' entry of every prepared job dictionary
    recipients_to_list,               \* the 'recipients_to_list' entry of every prepared job dictionary
    rows_without_recipients,          \* jobs the last prepare created with an empty recipient list (warning logged)
    active_test_email_workers,        \* the running test-send workers, each as the recipients_to_list of its job
    \* the template resolution of one job
    boundary_tag_cache_for_this_job,  \* value cached for every boundary tag text, "" when not cached
    resolved_values,                  \* per template and tag text: the values its occurrences resolved to
    resolve_pc,                       \* the template that is resolved next
    \* one call of process_spintax_in_text
    spintax_text,                     \* text_with_spintax, a sequence of characters
    spintax_result,                   \* the text the call returned
    spintax_pc,                       \* idle, done
    \* the pool of rate limiters and the batch workers that load SMTP jobs from it
    rate_limiters_pool,               \* MailerApp.rate_limiters_pool: nickname -> limiter instance
    limiters_created,                 \* AdvancedRateLimiter objects constructed so far
    pool_workers,                     \* the loading of one SMTP job by each batch worker
    \* one call of create_fully_prepared_email_job
    email_job_dict,                   \* the templates of the call and the job dictionary it returned
    \* one AdvancedRateLimiter of rate_limiters_pool and the tasks that use it
    tokens,                           \* AdvancedRateLimiter.tokens, in token units
    last_update,
    emails_per_second,                \* in token units per tick
    burst_size,                       \* in tokens
    now,                              \* time.time(), in ticks
    acquirers,                        \* the acquire call of every caller
    reload_pc,                        \* position of load_configured_generic_smtp_servers
    reload_burst,                     \* burst_allowance the reload is about to store
    granted,                          \* acquire calls begun under the current configuration that returned True
    epoch_start,                      \* time of the first acquire call under the current configuration, -1 before it
    lock                              \* AdvancedRateLimiter.lock: the caller that holds it, 0 when free

mainvars == << email_job_queue, jobs_prepared, current_job_index_for_dispatch,
           active_batch_send_workers, queue_processing_active, is_paused_flag,
           total_emails_processed_overall, total_emails_successful_overall,
           batch_size_for_main_workers, max_concurrent_sends_per_batch_worker,
           pending_timers, pending_signals, ctl, stop_list, bw, task, sent,
           transport_ok, completed_emitted, jobs_handed, finalized, last_stop, clicks, stop_clicks, last_handler,
           pause_history, job_type, recipients_to_list, rows_without_recipients,
           active_test_email_workers, boundary_tag_cache_for_this_job,
           resolved_values, resolve_pc, spintax_text, spintax_result, spintax_pc,
           rate_limiters_pool, limiters_created, pool_workers, email_job_dict >>

rlvars == << tokens, last_update, emails_per_second, burst_size, now, acquirers,
             reload_pc, reload_burst, granted, epoch_start, lock >>

\* the contents of the job dictionaries
jobvars == << job_type, recipients_to_list, rows_without_recipients,
              active_test_email_workers >>

\* the template resolution of one job
spinvars == << spintax_text, spintax_result, spintax_pc >>

poolvars == << rate_limiters_pool, limiters_created, pool_workers >>

rendervars == << email_job_dict >>

tagvars == << boundary_tag_cache_for_this_job, resolved_values, resolve_pc, spinvars,
             poolvars, rendervars >>

vars == << mainvars, rlvars >>

SpintaxIterations == 10  \* for _ in range(10)

\* ---- helpers ----
Range(s) == {s[i] : i \in DOMAIN s}

Min(a, b) == IF a < b THEN a ELSE b

RECURSIVE SortedSeq(_)
\* the elements of a set of job ids as a sequence, smallest first
SortedSeq(S) ==
    IF S = {} THEN <<>>
    ELSE LET m == CHOOSE x \in S : \A y \in S : x <= y
         IN <<m>> \o SortedSeq(S \ {m})

RECURSIVE RemoveFirst(_, _)
\* list.remove(x)
RemoveFirst(s, x) ==
    IF s = <<>> THEN <<>>
    ELSE IF Head(s) = x THEN Tail(s)
    ELSE <<Head(s)>> \o RemoveFirst(Tail(s), x)

InFlight(st) == st \in {"acquire", "sending"}
TaskDone(st) == st \in {"ok", "fail", "fault", "cancelled"}

NoWorker ==
    [ st |-> "none", job_batch |-> <<>>, cfg |-> 0,
      is_running_batch_thread |-> FALSE, idx |-> 0,
      job_queue |-> <<>>, total_jobs_submitted_to_q |-> 0,
      completed_jobs_count |-> 0, active_futures |-> {},
      is_running |-> FALSE, done_list |-> <<>>, completed_results |-> <<>>,
      completed_in_batch |-> 0, successful_in_batch |-> 0, failed_in_batch |-> 0,
      detached |-> FALSE, worker_func |-> "none",
      fifo_left_at_stop |-> FALSE, signals_emitted |-> 0 ]

\* OptimizedEmailSenderThread.__init__ with HighPerformanceJobQueue.__init__
NewWorker(batch, c) ==
    [ NoWorker EXCEPT !.st = "load", !.job_batch = batch, !.cfg = c,
                      !.is_running_batch_thread = TRUE, !.idx = 1 ]

\* a worker whose run() has returned (executor and futures released)
EndedWorker == [NoWorker EXCEPT !.st = "end"]

\* ---- control path (main thread) ----

\* update_queue_control_buttons_state: the enabled state of the four buttons
\* (a sender is assumed to be selected)
CanPrepare == ~queue_processing_active \/ is_paused_flag
CanStartSending ==
    /\ email_job_queue # <<>>
    /\ (~queue_processing_active \/ is_paused_flag)
    /\ current_job_index_for_dispatch < Len(email_job_queue)
CanPauseResume == queue_processing_active
CanStop ==
    \/ email_job_queue # <<>>
    \/ queue_processing_active
    \/ active_batch_send_workers # <<>>

\* posted events are delivered before the next user input: the finished
\* signals that were queued while stop() blocked the event loop come first
UserInputReady ==
    /\ ctl = "idle"
    /\ clicks < MaxClicks
    /\ \A i \in DOMAIN pending_signals : ~pending_signals[i].late

\* the entries of the send-method combo box
SendMethods == {"appsscript", "genericsmtp"}

\* the strings that stand between the delimiters of a recipient field
ValidAddresses == {"a@x.org"}
RecipientCandidates == ValidAddresses \cup {"not-an-address"}

\* the recipient fields of up to MaxRecipients candidates
RecipientFields(candidates) == UNION {[1..k -> candidates] : k \in 0..MaxRecipients}

RECURSIVE parse_recipients(_)
\* _parse_recipients: the candidates that match the address pattern, in
\* order, each address once
parse_recipients(recipients_string_input) ==
    IF recipients_string_input = <<>> THEN <<>>
    ELSE LET n == Len(recipients_string_input)
             email_candidate_str == recipients_string_input[n]
             valid_email_list == parse_recipients(SubSeq(recipients_string_input, 1, n - 1))
         IN IF email_candidate_str \in ValidAddresses
               /\ email_candidate_str \notin Range(valid_email_list)
            THEN Append(valid_email_list, email_candidate_str)
            ELSE valid_email_list

\* the custom headers of the UI: none with "to:" in it, one whose name only
\* ends in "to:" (Reply-To), or a 'To' header
CustomHeaderKinds == {"absent", "substring_only", "to_key"}

\* one data row as its job sees it: the 'To' field resolved with the row's
\* data, and the value of the custom 'To' header resolved with the row's data
RowInputs == [to_field : RecipientFields(RecipientCandidates),
              custom_to_value : RecipientFields(RecipientCandidates)]
PlainRow == [to_field |-> <<"a@x.org">>, custom_to_value |-> <<>>]

\* create_fully_prepared_email_job: the recipients_to_list of the job it returns
create_fully_prepared_email_job(initial_to_emails_list, row, custom_headers) ==
    LET new_recipients_list_from_header == parse_recipients(row.custom_to_value)
    IN IF custom_headers = "to_key" /\ new_recipients_list_from_header # <<>>
       THEN new_recipients_list_from_header
       ELSE initial_to_emails_list

\* one iteration of the loop over the rows, up to the job it creates; a row
\* without recipient and without custom 'To' header is skipped before that
PreparedJobOfRow(row, custom_headers) ==
    LET initial_to_emails_list == parse_recipients(row.to_field)
        custom_to_header_is_present == custom_headers # "absent"
    IN IF initial_to_emails_list = <<>> /\ ~custom_to_header_is_present
       THEN [created |-> FALSE, recipients_to_list |-> <<>>]
       ELSE [created |-> TRUE,
             recipients_to_list |->
                 create_fully_prepared_email_job(initial_to_emails_list, row,
                                                 custom_headers)]

RECURSIVE JobsToAppendUnchecked(_, _)
\* the loop over the rows that appends every job that was created
JobsToAppendUnchecked(rows, custom_headers) ==
    IF rows = <<>> THEN <<>>
    ELSE LET prepared_email_job == PreparedJobOfRow(Head(rows), custom_headers)
             rest == JobsToAppendUnchecked(Tail(rows), custom_headers)
         IN IF prepared_email_job.created
            THEN <<prepared_email_job.recipients_to_list>> \o rest ELSE rest

RECURSIVE JobsToAppend(_, _)
\* the loop over the rows: the recipients_to_list of the jobs that are appended
\* to email_job_queue, in order
JobsToAppend(rows, custom_headers) ==
    IF rows = <<>> THEN <<>>
    ELSE LET prepared_email_job == PreparedJobOfRow(Head(rows), custom_headers)
             rest == JobsToAppend(Tail(rows), custom_headers)
         IN IF prepared_email_job.created /\ prepared_email_job.recipients_to_list # <<>>
            THEN <<prepared_email_job.recipients_to_list>> \o rest ELSE rest

\* the same for the Stop button
StopInputReady ==
    /\ ctl = "idle"
    /\ stop_clicks < MaxStopClicks
    /\ \A i \in DOMAIN pending_signals : ~pending_signals[i].late

\* action_prepare_campaign_and_add_to_queue: the jobs of the rows, prepared
\* for the selected send method, are appended to the job list
Prepare(rows, custom_headers, send_method_type) ==
    /\ UNCHANGED << rlvars, stop_clicks, tagvars, active_test_email_workers >>
    /\ UserInputReady
    /\ clicks' = clicks + 1
    /\ CanPrepare
    /\ LET jobs == JobsToAppend(rows, custom_headers)
           n == Len(jobs)
       IN /\ jobs_prepared + n <= MaxJobs
          /\ email_job_queue' = email_job_queue \o [i \in 1..n |-> jobs_prepared + i]
          /\ jobs_prepared' = jobs_prepared + n
          /\ job_type' = [j \in JobIds |->
                            IF j \in (jobs_prepared + 1)..(jobs_prepared + n)
                            THEN send_method_type ELSE job_type[j]]
          /\ recipients_to_list' = [j \in JobIds |->
                            IF j \in (jobs_prepared + 1)..(jobs_prepared + n)
                            THEN jobs[j - jobs_prepared] ELSE recipients_to_list[j]]
          /\ rows_without_recipients' = Len(JobsToAppendUnchecked(rows, custom_headers)) - n
    /\ finalized' = FALSE
    /\ last_stop' = "none"
    /\ last_handler' = "other"
    /\ pause_history' = IF finalized THEN "none" ELSE pause_history
    /\ UNCHANGED << current_job_index_for_dispatch, active_batch_send_workers,
                    queue_processing_active, is_paused_flag,
                    total_emails_processed_overall, total_emails_successful_overall,
                    batch_size_for_main_workers, max_concurrent_sends_per_batch_worker,
                    pending_timers, pending_signals, ctl, stop_list, bw, task, sent,
                    transport_ok, completed_emitted, jobs_handed >>

\* n rows with a valid 'To' address and no custom headers
PlainRows(n) == [i \in 1..n |-> PlainRow]

\* dispatch_next_email_batch_to_worker without the check of is_paused_flag
DispatchNextIgnoringPause(qpa, paused, idx) ==
    IF ~qpa
    THEN /\ queue_processing_active' = qpa
         /\ is_paused_flag' = paused
         /\ current_job_index_for_dispatch' = idx
         /\ last_handler' = IF paused THEN "dispatch_while_paused" ELSE "other"
         /\ UNCHANGED << active_batch_send_workers, bw, finalized >>
    ELSE IF idx >= Len(email_job_queue)
    THEN IF active_batch_send_workers = <<>>
         THEN /\ queue_processing_active' = FALSE
              /\ is_paused_flag' = FALSE
              /\ finalized' = TRUE
              /\ current_job_index_for_dispatch' = idx
              /\ last_handler' = "other"
              /\ UNCHANGED << active_batch_send_workers, bw >>
         ELSE /\ queue_processing_active' = qpa
              /\ is_paused_flag' = paused
              /\ current_job_index_for_dispatch' = idx
              /\ last_handler' = IF paused THEN "dispatch_while_paused" ELSE "other"
              /\ UNCHANGED << active_batch_send_workers, bw, finalized >>
    ELSE LET batch_end_idx == Min(idx + batch_size_for_main_workers, Len(email_job_queue))
             current_batch == SubSeq(email_job_queue, idx + 1, batch_end_idx)
             w == current_batch[1]
         IN /\ bw' = [bw EXCEPT ![w] =
                        NewWorker(current_batch, max_concurrent_sends_per_batch_worker)]
            /\ active_batch_send_workers' = Append(active_batch_send_workers, w)
            /\ current_job_index_for_dispatch' = batch_end_idx
            /\ queue_processing_active' = qpa
            /\ is_paused_flag' = paused
            /\ last_handler' = IF paused THEN "dispatch_while_paused" ELSE "other"
            /\ UNCHANGED finalized

\* dispatch_next_email_batch_to_worker, entered with the flags qpa/paused and
\* the cursor idx its caller has just set; finalize_overall_queue_processing
\* is the branch that clears both flags
DispatchNext(qpa, paused, idx) ==
    IF paused \/ ~qpa
    THEN /\ queue_processing_active' = qpa
         /\ is_paused_flag' = paused
         /\ current_job_index_for_dispatch' = idx
         /\ last_handler' = IF paused THEN "dispatch_while_paused" ELSE "other"
         /\ UNCHANGED << active_batch_send_workers, bw, finalized >>
    ELSE IF idx >= Len(email_job_queue)
    THEN IF active_batch_send_workers = <<>>
         THEN /\ queue_processing_active' = FALSE
              /\ is_paused_flag' = FALSE
              /\ finalized' = TRUE
              /\ current_job_index_for_dispatch' = idx
              /\ last_handler' = "other"
              /\ UNCHANGED << active_batch_send_workers, bw >>
         ELSE /\ queue_processing_active' = qpa
              /\ is_paused_flag' = paused
              /\ current_job_index_for_dispatch' = idx
              /\ last_handler' = "other"
              /\ UNCHANGED << active_batch_send_workers, bw, finalized >>
    ELSE LET batch_start_idx == idx
             batch_end_idx == Min(batch_start_idx + batch_size_for_main_workers,
                                  Len(email_job_queue))
             current_batch == SubSeq(email_job_queue, batch_start_idx + 1, batch_end_idx)
             w == current_batch[1]
         IN /\ bw' = [bw EXCEPT ![w] =
                        NewWorker(current_batch, max_concurrent_sends_per_batch_worker)]
            /\ active_batch_send_workers' = Append(active_batch_send_workers, w)
            /\ current_job_index_for_dispatch' = batch_end_idx
            /\ queue_processing_active' = qpa
            /\ is_paused_flag' = paused
            /\ last_handler' = "other"
            /\ UNCHANGED finalized

\* a start that never takes the queue to be at its beginning
NeverFreshStart == FALSE

\* "Fresh start or restart from beginning": the test of the cursor that makes
\* action_start_queue_processing reset the performance tracking
FreshStart == current_job_index_for_dispatch = 0

\* action_start_queue_processing
Start ==
    /\ UNCHANGED << rlvars, stop_clicks, tagvars, jobvars >>
    /\ UserInputReady
    /\ clicks' = clicks + 1
    /\ CanStartSending
    /\ email_job_queue # <<>>
    /\ ~(queue_processing_active /\ ~is_paused_flag)
    /\ IF FreshStart
       THEN /\ total_emails_processed_overall' = 0
            /\ total_emails_successful_overall' = 0
            /\ transport_ok' = 0
            /\ completed_emitted' = 0
            /\ pause_history' = "none"
       ELSE UNCHANGED << total_emails_processed_overall, total_emails_successful_overall,
                         transport_ok, completed_emitted, pause_history >>
    /\ DispatchNext(TRUE, FALSE,
                    IF current_job_index_for_dispatch >= Len(email_job_queue)
                    THEN 0 ELSE current_job_index_for_dispatch)
    /\ jobs_handed' = (IF FreshStart THEN 0 ELSE jobs_handed)
                        + (current_job_index_for_dispatch' - current_job_index_for_dispatch)
    /\ UNCHANGED << email_job_queue, jobs_prepared,
                    batch_size_for_main_workers, max_concurrent_sends_per_batch_worker,
                    pending_timers, pending_signals, ctl, stop_list, task, sent, last_stop >>

\* a pending QTimer.singleShot fires dispatch_next_email_batch_to_worker
TimerDispatch ==
    /\ UNCHANGED << rlvars, stop_clicks, tagvars, jobvars, pause_history >>
    /\ ctl = "idle"
    /\ pending_timers > 0
    /\ pending_timers' = pending_timers - 1
    /\ DispatchNext(queue_processing_active, is_paused_flag, current_job_index_for_dispatch)
    /\ jobs_handed' = jobs_handed
                        + (current_job_index_for_dispatch' - current_job_index_for_dispatch)
    /\ UNCHANGED << email_job_queue, jobs_prepared,
                    total_emails_processed_overall, total_emails_successful_overall,
                    batch_size_for_main_workers, max_concurrent_sends_per_batch_worker,
                    pending_signals, ctl, stop_list, task, sent, transport_ok, completed_emitted, last_stop, clicks >>

\* on_batch_worker_finished, for the oldest queued send_finished_signal
BatchWorkerFinished ==
    /\ UNCHANGED << rlvars, stop_clicks, tagvars, jobvars, pause_history >>
    /\ ctl = "idle"
    /\ pending_signals # <<>>
    /\ LET sig == Head(pending_signals)
           w == sig.w
           remaining == RemoveFirst(active_batch_send_workers, w)
       IN /\ pending_signals' = Tail(pending_signals)
          /\ active_batch_send_workers' = remaining
          /\ total_emails_processed_overall' =
                 total_emails_processed_overall + sig.completed_in_batch
          /\ total_emails_successful_overall' =
                 total_emails_successful_overall + sig.successful_in_batch
          \* quit / wait(7000) / deleteLater: the thread object goes away once run() has ended
          /\ bw' = [bw EXCEPT ![w] = IF bw[w].st = "end" THEN NoWorker
                                     ELSE [bw[w] EXCEPT !.detached = TRUE]]
          /\ IF queue_processing_active /\ ~is_paused_flag
             THEN /\ pending_timers' = pending_timers + 1
                  /\ last_handler' = "other"
                  /\ UNCHANGED << queue_processing_active, is_paused_flag, finalized >>
             ELSE IF remaining = <<>> /\
                     (current_job_index_for_dispatch >= Len(email_job_queue)
                        \/ ~queue_processing_active)
             THEN /\ queue_processing_active' = FALSE
                  /\ is_paused_flag' = FALSE
                  /\ finalized' = TRUE
                  /\ last_handler' = "other"
                  /\ UNCHANGED pending_timers
             ELSE /\ last_handler' = "other"
                  /\ UNCHANGED << pending_timers, queue_processing_active,
                                  is_paused_flag, finalized >>
    /\ UNCHANGED << email_job_queue, jobs_prepared,
                    current_job_index_for_dispatch,
                    batch_size_for_main_workers, max_concurrent_sends_per_batch_worker,
                    ctl, stop_list, task, sent, transport_ok, completed_emitted, jobs_handed, last_stop, clicks >>

\* the campaign has three batches, the first has been dispatched and its worker
\* has not yet signalled completion, the others have not been dispatched
InBatch1Of3 ==
    /\ Len(email_job_queue) > 2 * batch_size_for_main_workers
    /\ Len(email_job_queue) <= 3 * batch_size_for_main_workers
    /\ current_job_index_for_dispatch = batch_size_for_main_workers
    /\ Len(active_batch_send_workers) = 1
    /\ bw[active_batch_send_workers[1]].st \notin {"none", "finally", "shutdown", "end"}
    /\ pending_signals = <<>>

\* action_toggle_pause_resume_queue whose resume branch schedules no dispatch
ToggleResumeWithoutDispatch ==
    /\ UNCHANGED << rlvars, stop_clicks, tagvars, jobvars >>
    /\ UserInputReady
    /\ clicks' = clicks + 1
    /\ CanPauseResume
    /\ ~(~queue_processing_active /\ email_job_queue = <<>>)
    /\ ~(~is_paused_flag
           /\ current_job_index_for_dispatch >= Len(email_job_queue)
           /\ active_batch_send_workers = <<>>)
    /\ IF ~is_paused_flag
       THEN \* pausing
            /\ is_paused_flag' = TRUE
            /\ last_handler' = "other"
            /\ pause_history' = IF InBatch1Of3 THEN "paused_in_batch1" ELSE pause_history
            /\ UNCHANGED << queue_processing_active, pending_timers, finalized >>
       ELSE \* resuming
            /\ pause_history' = IF pause_history = "paused_in_batch1"
                                THEN "resumed" ELSE pause_history
            /\ IF current_job_index_for_dispatch < Len(email_job_queue)
                  \/ active_batch_send_workers # <<>>
               THEN /\ pending_timers < MaxTimers
                    /\ is_paused_flag' = FALSE
                    /\ queue_processing_active' = TRUE
                    /\ UNCHANGED pending_timers
                    /\ last_handler' = "other"
                    /\ UNCHANGED finalized
               ELSE /\ queue_processing_active' = FALSE
                    /\ is_paused_flag' = FALSE
                    /\ finalized' = TRUE
                    /\ last_handler' = "other"
                    /\ UNCHANGED pending_timers
    /\ UNCHANGED << email_job_queue, jobs_prepared,
                    current_job_index_for_dispatch, active_batch_send_workers,
                    total_emails_processed_overall, total_emails_successful_overall,
                    batch_size_for_main_workers, max_concurrent_sends_per_batch_worker,
                    pending_signals, ctl, stop_list, bw, task, sent, transport_ok, completed_emitted, jobs_handed, last_stop >>

\* action_toggle_pause_resume_queue
TogglePauseResume ==
    /\ UNCHANGED << rlvars, stop_clicks, tagvars, jobvars >>
    /\ UserInputReady
    /\ clicks' = clicks + 1
    /\ CanPauseResume
    /\ ~(~queue_processing_active /\ email_job_queue = <<>>)
    /\ ~(~is_paused_flag
           /\ current_job_index_for_dispatch >= Len(email_job_queue)
           /\ active_batch_send_workers = <<>>)
    /\ IF ~is_paused_flag
       THEN \* pausing
            /\ is_paused_flag' = TRUE
            /\ last_handler' = "other"
            /\ pause_history' = IF InBatch1Of3 THEN "paused_in_batch1" ELSE pause_history
            /\ UNCHANGED << queue_processing_active, pending_timers, finalized >>
       ELSE \* resuming
            /\ pause_history' = IF pause_history = "paused_in_batch1"
                                THEN "resumed" ELSE pause_history
            /\ IF current_job_index_for_dispatch < Len(email_job_queue)
                  \/ active_batch_send_workers # <<>>
               THEN /\ pending_timers < MaxTimers
                    /\ is_paused_flag' = FALSE
                    /\ queue_processing_active' = TRUE
                    /\ pending_timers' = pending_timers + 1
                    /\ last_handler' = "other"
                    /\ UNCHANGED finalized
               ELSE /\ queue_processing_active' = FALSE
                    /\ is_paused_flag' = FALSE
                    /\ finalized' = TRUE
                    /\ last_handler' = "other"
                    /\ UNCHANGED pending_timers
    /\ UNCHANGED << email_job_queue, jobs_prepared,
                    current_job_index_for_dispatch, active_batch_send_workers,
                    total_emails_processed_overall, total_emails_successful_overall,
                    batch_size_for_main_workers, max_concurrent_sends_per_batch_worker,
                    pending_signals, ctl, stop_list, bw, task, sent, transport_ok, completed_emitted, jobs_handed, last_stop >>

\* a stop() of the batch worker that also runs the manager's shutdown
StopWorkerAndShutdown(r) ==
    [r EXCEPT !.is_running_batch_thread = FALSE, !.is_running = FALSE,
              !.fifo_left_at_stop = r.job_queue # <<>>,
              !.st = "shutdown"]

\* OptimizedEmailSenderThread.stop applied to the worker record r: sets the
\* flags; fifo_left_at_stop records that the manager's FIFO held jobs then
StopWorkerFlags(r) ==
    [r EXCEPT !.is_running_batch_thread = FALSE, !.is_running = FALSE,
              !.fifo_left_at_stop = r.job_queue # <<>>]

\* a cancel loop that also ends the futures that are running
CancellableOrRunning(r) == {j \in r.active_futures : task[j] \in {"pending", "acquire", "sending"}}

\* the futures OptimizedEmailSenderThread.stop / HighPerformanceJobQueue.stop can
\* cancel: in active_futures, neither running nor done
Cancellable(r) == {j \in r.active_futures : task[j] = "pending"}

\* action_stop_queue_processing_and_clear, up to the end of the loop that calls
\* worker_thread.stop() on every active worker
StopSignalWorkers ==
    /\ UNCHANGED << rlvars, tagvars, jobvars, clicks >>
    /\ StopInputReady
    /\ stop_clicks' = stop_clicks + 1
    /\ CanStop
    /\ ~( ~queue_processing_active /\ email_job_queue = <<>>
          /\ active_batch_send_workers = <<>> )
    /\ queue_processing_active' = FALSE
    /\ is_paused_flag' = TRUE
    /\ LET ws == Range(active_batch_send_workers)
       IN /\ bw' = [w \in JobIds |-> IF w \in ws THEN StopWorkerFlags(bw[w]) ELSE bw[w]]
          /\ task' = [j \in JobIds |->
                        IF \E w \in ws : j \in Cancellable(bw[w])
                        THEN "cancelled" ELSE task[j]]
    /\ stop_list' = active_batch_send_workers
    /\ ctl' = "stop_wait"
    /\ pause_history' = "none"
    /\ last_stop' = IF /\ current_job_index_for_dispatch > 0
                       /\ current_job_index_for_dispatch < Len(email_job_queue)
                    THEN "mid_campaign" ELSE "other"
    /\ last_handler' = "other"
    /\ UNCHANGED << email_job_queue, jobs_prepared, current_job_index_for_dispatch,
                    active_batch_send_workers,
                    total_emails_processed_overall, total_emails_successful_overall,
                    batch_size_for_main_workers, max_concurrent_sends_per_batch_worker,
                    pending_timers, pending_signals, sent, transport_ok, completed_emitted, jobs_handed, finalized >>

\* the wait loop of stop(): worker_thread.wait(7000) returns because run() has ended
StopWaitFinished ==
    /\ UNCHANGED << rlvars, stop_clicks, tagvars, jobvars, pause_history >>
    /\ ctl = "stop_wait"
    /\ stop_list # <<>>
    /\ bw[Head(stop_list)].st = "end"
    /\ active_batch_send_workers' = RemoveFirst(active_batch_send_workers, Head(stop_list))
    /\ stop_list' = Tail(stop_list)
    /\ UNCHANGED << email_job_queue, jobs_prepared, current_job_index_for_dispatch,
                    queue_processing_active, is_paused_flag,
                    total_emails_processed_overall, total_emails_successful_overall,
                    batch_size_for_main_workers, max_concurrent_sends_per_batch_worker,
                    pending_timers, pending_signals, ctl, bw, task, sent, transport_ok, completed_emitted, jobs_handed,
                    finalized, last_stop, clicks, last_handler >>

\* a wait loop whose worker_thread.wait() has no timeout
StopWaitWithoutTimeout == FALSE /\ UNCHANGED vars

\* the wait loop of stop(): worker_thread.wait(7000) times out; the batch thread
\* is blocked in executor.shutdown(wait=True) behind a send task that takes
\* longer (acquire(timeout=15), SMTP timeout 25, HTTP timeout 30)
StopWaitTimeout ==
    /\ UNCHANGED << rlvars, stop_clicks, tagvars, jobvars, pause_history >>
    /\ ctl = "stop_wait"
    /\ stop_list # <<>>
    /\ LET w == Head(stop_list)
       IN /\ bw[w].st = "shutdown"
          /\ \E j \in Range(bw[w].job_batch) : InFlight(task[j])
    /\ active_batch_send_workers' = RemoveFirst(active_batch_send_workers, Head(stop_list))
    /\ stop_list' = Tail(stop_list)
    /\ UNCHANGED << email_job_queue, jobs_prepared, current_job_index_for_dispatch,
                    queue_processing_active, is_paused_flag,
                    total_emails_processed_overall, total_emails_successful_overall,
                    batch_size_for_main_workers, max_concurrent_sends_per_batch_worker,
                    pending_timers, pending_signals, ctl, bw, task, sent, transport_ok, completed_emitted, jobs_handed,
                    finalized, last_stop, clicks, last_handler >>

\* stop() that returns after the wait loop without clearing the job list and
\* without resetting the cursor
StopReturnWithoutClear ==
    /\ UNCHANGED << rlvars, stop_clicks, tagvars, jobvars, pause_history >>
    /\ ctl = "stop_wait"
    /\ stop_list = <<>>
    /\ active_batch_send_workers' = <<>>
    /\ ctl' = "idle"
    /\ pending_signals' = [i \in DOMAIN pending_signals |->
                              [pending_signals[i] EXCEPT !.late = TRUE]]
    /\ last_handler' = "other"
    /\ UNCHANGED << email_job_queue, current_job_index_for_dispatch,
                    jobs_prepared, queue_processing_active, is_paused_flag,
                    total_emails_processed_overall, total_emails_successful_overall,
                    batch_size_for_main_workers, max_concurrent_sends_per_batch_worker,
                    pending_timers, stop_list, bw, task, sent, transport_ok, completed_emitted, jobs_handed, finalized, last_stop, clicks >>

\* action_stop_queue_processing_and_clear after the wait loop: clears and returns
StopClearAndReturn ==
    /\ UNCHANGED << rlvars, stop_clicks, tagvars, jobvars, pause_history >>
    /\ ctl = "stop_wait"
    /\ stop_list = <<>>
    /\ active_batch_send_workers' = <<>>
    /\ email_job_queue' = <<>>
    /\ current_job_index_for_dispatch' = 0
    /\ ctl' = "idle"
    /\ pending_signals' = [i \in DOMAIN pending_signals |->
                              [pending_signals[i] EXCEPT !.late = TRUE]]
    /\ last_handler' = "other"
    /\ UNCHANGED << jobs_prepared, queue_processing_active, is_paused_flag,
                    total_emails_processed_overall, total_emails_successful_overall,
                    batch_size_for_main_workers, max_concurrent_sends_per_batch_worker,
                    pending_timers, stop_list, bw, task, sent, transport_ok, completed_emitted, jobs_handed, finalized, last_stop, clicks >>

\* ---- batch worker thread: OptimizedEmailSenderThread.run ----

OrchestratorVars ==
    << email_job_queue, jobs_prepared, current_job_index_for_dispatch,
       active_batch_send_workers, queue_processing_active, is_paused_flag,
       total_emails_processed_overall, total_emails_successful_overall,
       batch_size_for_main_workers, max_concurrent_sends_per_batch_worker,
       pending_timers, ctl, stop_list, finalized, last_stop, clicks, last_handler,
       pause_history >>

\* is_finished that does not look at the futures still in flight
is_finished_ignores_futures(r) ==
    r.job_queue = <<>>

\* is_finished that never reports the end of the batch
is_finished_never(r) == FALSE

\* HighPerformanceJobQueue.is_finished
is_finished(r) ==
    /\ r.job_queue = <<>>
    /\ r.active_futures = {}
    /\ r.completed_jobs_count >= r.total_jobs_submitted_to_q

\* an add_job that does not count the job as submitted
add_job_uncounted(r, j) ==
    [r EXCEPT !.job_queue = Append(r.job_queue, j)]

\* HighPerformanceJobQueue.add_job
add_job(r, j) ==
    [r EXCEPT !.job_queue = Append(r.job_queue, j),
              !.total_jobs_submitted_to_q = r.total_jobs_submitted_to_q + 1]

\* the loading loop of run(): one iteration (stop check, limiter attach, add_job)
RunLoadJob(w) ==
    /\ UNCHANGED << rlvars, stop_clicks, tagvars, jobvars >>
    /\ bw[w].st = "load"
    /\ LET r == bw[w]
       IN IF ~r.is_running_batch_thread
          THEN bw' = [bw EXCEPT ![w].st = "after_load"]
          ELSE bw' = [bw EXCEPT ![w] =
                        [add_job(r, r.job_batch[r.idx]) EXCEPT
                            !.idx = r.idx + 1,
                            !.st = IF r.idx = Len(r.job_batch) THEN "after_load" ELSE "load"]]
    /\ UNCHANGED << OrchestratorVars, pending_signals, task, sent, transport_ok, completed_emitted, jobs_handed >>

\* a finished signal that reports every completed job twice
FinishedSignalDoubled(w, r) ==
    [ w |-> w, completed_in_batch |-> 2 * r.completed_in_batch,
      successful_in_batch |-> r.successful_in_batch,
      success |-> r.is_running_batch_thread, late |-> FALSE ]

\* a finished signal that carries no counts
FinishedSignalWithoutStats(w, r) ==
    [ w |-> w, completed_in_batch |-> 0, successful_in_batch |-> 0,
      success |-> r.is_running_batch_thread, late |-> FALSE ]

\* the signal send_finished_signal.emit(ok, msg, batch_stats) of worker w
FinishedSignal(w, r) ==
    [ w |-> w, completed_in_batch |-> r.completed_in_batch,
      successful_in_batch |-> r.successful_in_batch,
      success |-> r.is_running_batch_thread, late |-> FALSE ]

\* run(): the transport function of the whole batch, from the type of job_batch[0]
worker_func_for_send(first_job_type) ==
    IF first_job_type = "appsscript"
    THEN "send_email_via_apps_script" ELSE "send_email_via_smtp"

\* run() after the loading loop: the stop check, then the choice of the
\* transport function of the batch
RunAfterLoad(w) ==
    /\ UNCHANGED << rlvars, stop_clicks, tagvars, jobvars >>
    /\ bw[w].st = "after_load"
    /\ LET r == bw[w]
       IN IF ~r.is_running_batch_thread
          THEN /\ pending_signals' = Append(pending_signals, FinishedSignal(w, r))
               /\ completed_emitted' = completed_emitted + r.completed_in_batch
               /\ bw' = [bw EXCEPT ![w].st = "finally",
                                      ![w].signals_emitted = r.signals_emitted + 1]
          ELSE /\ bw' = [bw EXCEPT ![w].st = "start",
                                      ![w].worker_func =
                                          worker_func_for_send(job_type[r.job_batch[1]])]
               /\ UNCHANGED << pending_signals, completed_emitted >>
    /\ UNCHANGED << OrchestratorVars, task, sent, transport_ok, jobs_handed >>

\* start_processing that submits the first jobs without taking them off the FIFO
start_processing_keeps_fifo(r, max_concurrent_tasks) ==
    LET n == Min(max_concurrent_tasks, Len(r.job_queue))
    IN [r EXCEPT !.is_running = TRUE,
                 !.active_futures = r.active_futures \cup Range(SubSeq(r.job_queue, 1, n))]

\* start_processing that ignores max_concurrent_tasks and submits every job
start_processing_submits_all(r, max_concurrent_tasks) ==
    [r EXCEPT !.is_running = TRUE,
              !.active_futures = r.active_futures \cup Range(r.job_queue),
              !.job_queue = <<>>]

\* start_processing that submits the jobs added last
start_processing_takes_last(r, max_concurrent_tasks) ==
    LET n == Min(max_concurrent_tasks, Len(r.job_queue))
        m == Len(r.job_queue) - n
    IN [r EXCEPT !.is_running = TRUE,
                 !.active_futures = r.active_futures \cup Range(SubSeq(r.job_queue, m + 1, Len(r.job_queue))),
                 !.job_queue = SubSeq(r.job_queue, 1, m)]

\* HighPerformanceJobQueue.start_processing
start_processing(r, max_concurrent_tasks) ==
    LET n == Min(max_concurrent_tasks, Len(r.job_queue))
    IN [r EXCEPT !.is_running = TRUE,
                 !.active_futures = r.active_futures \cup Range(SubSeq(r.job_queue, 1, n)),
                 !.job_queue = SubSeq(r.job_queue, n + 1, Len(r.job_queue))]

RunStartProcessing(w) ==
    /\ UNCHANGED << rlvars, stop_clicks, tagvars, jobvars >>
    /\ bw[w].st = "start"
    /\ LET r == start_processing(bw[w], bw[w].cfg)
       IN /\ bw' = [bw EXCEPT ![w] = [r EXCEPT !.st = "loop"]]
          /\ task' = [j \in JobIds |->
                        IF j \in r.active_futures \ bw[w].active_futures
                        THEN "pending" ELSE task[j]]
    /\ UNCHANGED << OrchestratorVars, pending_signals, sent, transport_ok, completed_emitted, jobs_handed >>

\* the head of the poll loop of run(), and the first part of
\* get_completed_jobs: the snapshot of the futures that are done
RunLoopPoll(w) ==
    /\ UNCHANGED << rlvars, stop_clicks, tagvars, jobvars >>
    /\ bw[w].st = "loop"
    /\ LET r == bw[w]
       IN IF r.is_running_batch_thread /\ ~is_finished(r)
          THEN bw' = [bw EXCEPT
                        ![w].done_list =
                            SortedSeq({j \in r.active_futures : TaskDone(task[j])}),
                        ![w].completed_results = <<>>,
                        ![w].st = "pop"]
          ELSE bw' = [bw EXCEPT ![w].st = "exit"]
    /\ UNCHANGED << OrchestratorVars, pending_signals, task, sent, transport_ok, completed_emitted, jobs_handed >>

\* get_completed_jobs: one done future is popped, recorded and counted, and
\* the running flag and the FIFO are checked for the next admission
RunPopDone(w) ==
    /\ UNCHANGED << rlvars, stop_clicks, tagvars, jobvars >>
    /\ bw[w].st = "pop"
    /\ LET r == bw[w]
       IN IF r.done_list = <<>>
          THEN bw' = [bw EXCEPT ![w].st = "polled"]
          ELSE LET j == Head(r.done_list)
               IN bw' = [bw EXCEPT
                    ![w].done_list = Tail(r.done_list),
                    ![w].active_futures = r.active_futures \ {j},
                    ![w].completed_results = Append(r.completed_results, j),
                    ![w].completed_jobs_count = r.completed_jobs_count + 1,
                    ![w].st = IF r.is_running /\ r.job_queue # <<>>
                              THEN "submit" ELSE "pop"]
    /\ UNCHANGED << OrchestratorVars, pending_signals, task, sent, transport_ok, completed_emitted, jobs_handed >>

\* get_completed_jobs: job_queue.get_nowait() and executor.submit of the next job
RunSubmitNext(w) ==
    /\ UNCHANGED << rlvars, stop_clicks, tagvars, jobvars >>
    /\ bw[w].st = "submit"
    /\ LET r == bw[w]
           j == Head(r.job_queue)
       IN /\ bw' = [bw EXCEPT ![w].job_queue = Tail(r.job_queue),
                              ![w].active_futures = r.active_futures \cup {j},
                              ![w].st = "pop"]
          /\ task' = [task EXCEPT ![j] = "pending"]
    /\ UNCHANGED << OrchestratorVars, pending_signals, sent, transport_ok, completed_emitted, jobs_handed >>

RECURSIVE CountIn(_, _)
\* number of entries of the result list whose task state is in S
CountIn(res, S) ==
    IF res = <<>> THEN 0
    ELSE (IF task[Head(res)] \in S THEN 1 ELSE 0) + CountIn(Tail(res), S)

\* a count of failures that leaves out the tasks whose function raised
FailedResultsWithoutFault == {"fail", "cancelled"}

\* the results run() counts in failed_in_batch: error_str set (the future
\* raised or was cancelled), or a result without success
FailedResults == {"fail", "fault", "cancelled"}

\* run() after get_completed_jobs returned: the stop check, then the loop
\* that folds the returned results into batch_stats
RunCountResults(w) ==
    /\ UNCHANGED << rlvars, stop_clicks, tagvars, jobvars >>
    /\ bw[w].st = "polled"
    /\ task' = [j \in JobIds |->
                  IF j \in Range(bw[w].completed_results) THEN "drained" ELSE task[j]]
    /\ LET r == bw[w]
       IN IF ~r.is_running_batch_thread
          THEN bw' = [bw EXCEPT ![w].st = "exit", ![w].completed_results = <<>>]
          ELSE bw' = [bw EXCEPT
                 ![w].completed_in_batch = r.completed_in_batch + Len(r.completed_results),
                 ![w].successful_in_batch =
                     r.successful_in_batch + CountIn(r.completed_results, {"ok"}),
                 ![w].failed_in_batch =
                     r.failed_in_batch
                       + CountIn(r.completed_results, FailedResults),
                 ![w].completed_results = <<>>,
                 ![w].st = "loop"]
    /\ UNCHANGED << OrchestratorVars, pending_signals, sent, transport_ok, completed_emitted, jobs_handed >>

\* run() after the poll loop: send_finished_signal is emitted (stopped by the
\* user, or batch finished naturally)
RunEmitFinished(w) ==
    /\ UNCHANGED << rlvars, stop_clicks, tagvars, jobvars >>
    /\ bw[w].st = "exit"
    /\ pending_signals' = Append(pending_signals, FinishedSignal(w, bw[w]))
    /\ completed_emitted' = completed_emitted + bw[w].completed_in_batch
    /\ bw' = [bw EXCEPT ![w].st = "finally",
                        ![w].signals_emitted = bw[w].signals_emitted + 1]
    /\ UNCHANGED << OrchestratorVars, task, sent, transport_ok, jobs_handed >>

\* the finally block of run(): HighPerformanceJobQueue.stop up to the cancel loop
RunManagerStop(w) ==
    /\ UNCHANGED << rlvars, stop_clicks, tagvars, jobvars >>
    /\ bw[w].st = "finally"
    /\ task' = [j \in JobIds |-> IF j \in Cancellable(bw[w]) THEN "cancelled" ELSE task[j]]
    /\ bw' = [bw EXCEPT ![w].is_running = FALSE, ![w].st = "shutdown"]
    /\ UNCHANGED << OrchestratorVars, pending_signals, sent, transport_ok, completed_emitted, jobs_handed >>

\* HighPerformanceJobQueue.stop: executor.shutdown(wait=True) returns once no
\* task of the pool is running; run() ends
RunShutdownDone(w) ==
    /\ UNCHANGED << rlvars, stop_clicks, tagvars, jobvars >>
    /\ bw[w].st = "shutdown"
    /\ \A j \in Range(bw[w].job_batch) : ~InFlight(task[j])
    /\ bw' = [bw EXCEPT ![w] = IF bw[w].detached THEN NoWorker ELSE EndedWorker]
    /\ task' = [j \in JobIds |->
                  IF j \in Range(bw[w].job_batch) /\ task[j] # "none"
                  THEN "drained" ELSE task[j]]
    /\ UNCHANGED << OrchestratorVars, pending_signals, sent, transport_ok, completed_emitted, jobs_handed >>

\* ---- pool threads: one send task ----

\* the batch worker whose pool holds the future of job j
WorkerOf(j) == CHOOSE w \in JobIds : j \in bw[w].active_futures

\* the function the pool calls for job j is the one written for the job's type
RoutedByType(j) ==
    bw[WorkerOf(j)].worker_func = worker_func_for_send(job_type[j])

\* a pool thread takes the pending work item and calls the batch's transport
\* function with the job: send_email_via_apps_script, or send_email_via_smtp
\* for a job without rate limiter
TaskStart(j) ==
    /\ UNCHANGED << rlvars, stop_clicks, tagvars, jobvars >>
    /\ task[j] = "pending"
    /\ task' = [task EXCEPT ![j] = "sending"]
    /\ sent' = [sent EXCEPT ![j] = Min(sent[j] + 1, 2)]
    /\ UNCHANGED << OrchestratorVars, pending_signals, bw, transport_ok, completed_emitted, jobs_handed >>

\* the same for send_email_via_smtp with a job that carries a rate limiter:
\* the task first waits in rate_limiter.acquire(timeout=15)
TaskStartThrottled(j) ==
    /\ UNCHANGED << rlvars, stop_clicks, tagvars, jobvars >>
    /\ task[j] = "pending"
    /\ job_type[j] = "genericsmtp"
    /\ bw[WorkerOf(j)].worker_func = "send_email_via_smtp"
    /\ task' = [task EXCEPT ![j] = "acquire"]
    /\ sent' = [sent EXCEPT ![j] = Min(sent[j] + 1, 2)]
    /\ UNCHANGED << OrchestratorVars, pending_signals, bw, transport_ok, completed_emitted, jobs_handed >>

\* rate_limiter.acquire(timeout=15) returned True
TaskAcquired(j) ==
    /\ UNCHANGED << rlvars, stop_clicks, tagvars, jobvars >>
    /\ task[j] = "acquire"
    /\ task' = [task EXCEPT ![j] = "sending"]
    /\ UNCHANGED << OrchestratorVars, pending_signals, bw, sent, transport_ok, completed_emitted, jobs_handed >>

\* rate_limiter.acquire(timeout=15) returned False: "SMTP Rate Limit Timeout"
TaskAcquireTimeout(j) ==
    /\ UNCHANGED << rlvars, stop_clicks, tagvars, jobvars >>
    /\ task[j] = "acquire"
    /\ task' = [task EXCEPT ![j] = "fail"]
    /\ UNCHANGED << OrchestratorVars, pending_signals, bw, sent, transport_ok, completed_emitted, jobs_handed >>

\* the transport call ends: success, reported failure, or the function raised;
\* a function called with a job of the other type finds no 'web_app_url' or
\* no 'host' in it and reports failure
TaskFinish(j, res) ==
    /\ UNCHANGED << rlvars, stop_clicks, tagvars, jobvars >>
    /\ task[j] = "sending"
    /\ res = "ok" => RoutedByType(j)
    /\ task' = [task EXCEPT ![j] = res]
    /\ transport_ok' = IF res = "ok" THEN transport_ok + 1 ELSE transport_ok
    /\ UNCHANGED << completed_emitted, jobs_handed >>
    /\ UNCHANGED << OrchestratorVars, pending_signals, bw, sent >>

\* ---- template resolution: _resolve_all_placeholders_and_tags ----

\* the tag texts that are generated once per job
BoundaryTags == {"{{[bndn_6]}}", "#{{[token]}}"}
TemplateTokens == BoundaryTags \cup {"text"}
Templates == UNION {[1..k -> TemplateTokens] : k \in 0..MaxTemplateLen}

\* the strings generate_random_string returns
RandomValues == {"000001", "000002"}
RandomSupplies == [1..MaxTemplateLen -> RandomValues]

\* the templates of one job in the order they are resolved: the 'To' field
\* by the prepare action, the others by create_fully_prepared_email_job
TemplateSlots == << "to", "subject", "from_name", "body_html", "body_plain",
                    "custom_header" >>
SlotNames == Range(TemplateSlots)

EmptyCache == [t \in BoundaryTags |-> ""]

RECURSIVE resolve_all_placeholders_and_tags(_, _, _)
\* _resolve_all_placeholders_and_tags, step 3 (dynamic_tag_replacer_func over
\* the tags from left to right): the resolved text and the cache afterwards;
\* generated[i] is what generate_random_string returns at token i
resolve_all_placeholders_and_tags(text_template_input, boundary_tag_cache_for_job, generated) ==
    IF text_template_input = <<>>
    THEN [text |-> <<>>, cache |-> boundary_tag_cache_for_job]
    ELSE LET n == Len(text_template_input)
             before == resolve_all_placeholders_and_tags(
                           SubSeq(text_template_input, 1, n - 1),
                           boundary_tag_cache_for_job, generated)
             full_matched_tag == text_template_input[n]
         IN IF full_matched_tag \notin BoundaryTags
            THEN [text |-> Append(before.text, full_matched_tag), cache |-> before.cache]
            ELSE IF before.cache[full_matched_tag] = ""
            THEN [text |-> Append(before.text, generated[n]),
                  cache |-> [before.cache EXCEPT ![full_matched_tag] = generated[n]]]
            ELSE [text |-> Append(before.text, before.cache[full_matched_tag]),
                  cache |-> before.cache]

\* the values the occurrences of tag text t in the template resolved to
ValuesOfTag(text_template_input, resolved_text, t) ==
    {resolved_text[i] : i \in {k \in DOMAIN text_template_input :
                                   text_template_input[k] = t}}

NoValues == [slot \in SlotNames |-> [t \in BoundaryTags |-> {}]]

\* action_prepare_campaign_and_add_to_queue resolves the 'To' template of a
\* row in an empty cache of its own; create_fully_prepared_email_job then
\* starts with an empty boundary_tag_cache_for_this_job
ResolveToField(text_template_input, generated) ==
    /\ UNCHANGED << rlvars, stop_clicks, jobvars, spinvars, poolvars, rendervars >>
    /\ resolve_pc = 1
    /\ LET r == resolve_all_placeholders_and_tags(text_template_input, EmptyCache,
                                                  generated)
       IN resolved_values' =
              [NoValues EXCEPT !["to"] =
                  [t \in BoundaryTags |-> ValuesOfTag(text_template_input, r.text, t)]]
    /\ boundary_tag_cache_for_this_job' = EmptyCache
    /\ resolve_pc' = 2
    /\ UNCHANGED << OrchestratorVars, pending_signals, bw, task, sent, transport_ok, completed_emitted, jobs_handed >>

\* create_fully_prepared_email_job resolves its next template (subject, from
\* name, HTML body, plain body, custom header values) in the cache of the job
ResolveJobTemplate(text_template_input, generated) ==
    /\ UNCHANGED << rlvars, stop_clicks, jobvars, spinvars, poolvars, rendervars >>
    /\ resolve_pc \in 2..Len(TemplateSlots)
    /\ LET r == resolve_all_placeholders_and_tags(
                    text_template_input, boundary_tag_cache_for_this_job, generated)
       IN /\ resolved_values' =
                 [resolved_values EXCEPT ![TemplateSlots[resolve_pc]] =
                     [t \in BoundaryTags |-> ValuesOfTag(text_template_input, r.text, t)]]
          /\ boundary_tag_cache_for_this_job' = r.cache
    /\ resolve_pc' = resolve_pc + 1
    /\ UNCHANGED << OrchestratorVars, pending_signals, bw, task, sent, transport_ok, completed_emitted, jobs_handed >>

\* the job is returned and the loop goes on to the next row
ResolveNextRow ==
    /\ UNCHANGED << rlvars, stop_clicks, jobvars, spinvars, poolvars, rendervars >>
    /\ resolve_pc = Len(TemplateSlots) + 1
    /\ resolve_pc' = 1
    /\ resolved_values' = NoValues
    /\ boundary_tag_cache_for_this_job' = EmptyCache
    /\ UNCHANGED << OrchestratorVars, pending_signals, bw, task, sent, transport_ok, completed_emitted, jobs_handed >>

\* ---- spintax: process_spintax_in_text ----

\* the characters of the texts; "A", "B", "C" stand for any other character
SpintaxAlphabet == {"{", "}", "|", " ", "A", "B"}
FlatExample == << "{", "A", "|", "B", "}" >>
NestedExample == << "{", "A", "|", "{", "B", "|", "C", "}", "}" >>
StrayBraceExample == << "{", "A", "}", "{", "A", "|", "B", "}" >>
SpintaxTexts ==
    UNION {[1..k -> SpintaxAlphabet] : k \in 0..MaxSpintaxLen}
        \cup {FlatExample, NestedExample, StrayBraceExample}

\* what random.choice draws in the successive iterations
SpintaxChoiceSupplies == [1..MaxSpintaxChoices -> 1..MaxSpintaxOptions]

NoMatch == [start |-> 0, end |-> 0]

\* a search with the pattern \{(.*)\}: from the first brace to the last
SearchGreedy(text) ==
    LET opens == {i \in DOMAIN text : text[i] = "{" /\
                     \E j \in (i + 1)..Len(text) : text[j] = "}"}
    IN IF opens = {} THEN NoMatch
       ELSE LET i == CHOOSE x \in opens : \A y \in opens : x <= y
                closes == {j \in (i + 1)..Len(text) : text[j] = "}"}
            IN [start |-> i, end |-> CHOOSE x \in closes : \A y \in closes : x >= y]

\* spintax_pattern.search(processed_text) with the pattern \{([^{}]*?)\}: the
\* leftmost "{" whose next brace is a "}"
SearchInnermost(text) ==
    LET opens == {i \in DOMAIN text : text[i] = "{" /\
                     \E j \in (i + 1)..Len(text) :
                         /\ text[j] = "}"
                         /\ \A k \in (i + 1)..(j - 1) : text[k] \notin {"{", "}"}}
    IN IF opens = {} THEN NoMatch
       ELSE LET i == CHOOSE x \in opens : \A y \in opens : x <= y
                closes == {j \in (i + 1)..Len(text) : text[j] = "}"}
            IN [start |-> i, end |-> CHOOSE x \in closes : \A y \in closes : x <= y]

RECURSIVE SplitOnPipe(_)
\* spintax_content_segment.split('|')
SplitOnPipe(content) ==
    IF \A i \in DOMAIN content : content[i] # "|"
    THEN << content >>
    ELSE LET p == CHOOSE i \in DOMAIN content :
                      content[i] = "|" /\ \A k \in 1..(i - 1) : content[k] # "|"
         IN << SubSeq(content, 1, p - 1) >>
                \o SplitOnPipe(SubSeq(content, p + 1, Len(content)))

\* opt.strip()
Strip(opt) ==
    LET kept == {i \in DOMAIN opt : opt[i] # " "}
    IN IF kept = {} THEN <<>>
       ELSE SubSeq(opt, CHOOSE x \in kept : \A y \in kept : x <= y,
                        CHOOSE x \in kept : \A y \in kept : x >= y)

\* processed_text.replace(old, new, 1): the first occurrence of old is replaced
ReplaceFirst(text, old, new) ==
    LET at == {p \in 1..(Len(text) - Len(old) + 1) :
                  SubSeq(text, p, p + Len(old) - 1) = old}
    IN IF at = {} THEN text
       ELSE LET p == CHOOSE x \in at : \A y \in at : x <= y
            IN SubSeq(text, 1, p - 1) \o new \o SubSeq(text, p + Len(old), Len(text))

RECURSIVE SpintaxLoop(_, _, _, _)
\* the for loop of process_spintax_in_text with iterations_left rounds to go;
\* choices[drawn] is the index random.choice draws next
SpintaxLoop(processed_text, iterations_left, choices, drawn) ==
    IF iterations_left = 0 THEN processed_text
    ELSE LET match_innermost == SearchInnermost(processed_text)
         IN IF match_innermost = NoMatch THEN processed_text
            ELSE LET group0 == SubSeq(processed_text, match_innermost.start,
                                      match_innermost.end)
                     spintax_content_segment ==
                         SubSeq(processed_text, match_innermost.start + 1,
                                match_innermost.end - 1)
                 IN IF \E i \in DOMAIN spintax_content_segment :
                           spintax_content_segment[i] = "|"
                    THEN LET parts == SplitOnPipe(spintax_content_segment)
                             options_list == [i \in DOMAIN parts |-> Strip(parts[i])]
                             draw == choices[((drawn - 1) % Len(choices)) + 1]
                             chosen_option_str ==
                                 options_list[((draw - 1) % Len(options_list)) + 1]
                         IN SpintaxLoop(ReplaceFirst(processed_text, group0,
                                                     chosen_option_str),
                                        iterations_left - 1, choices, drawn + 1)
                    ELSE SpintaxLoop(ReplaceFirst(processed_text, group0, group0),
                                     iterations_left - 1, choices, drawn)

\* process_spintax_in_text
process_spintax_in_text(text_with_spintax, choices) ==
    IF text_with_spintax = <<>> \/ \A i \in DOMAIN text_with_spintax :
                                      text_with_spintax[i] # "{"
    THEN text_with_spintax
    ELSE SpintaxLoop(text_with_spintax, SpintaxIterations, choices, 1)

\* one call of process_spintax_in_text returns
ProcessSpintax(text_with_spintax, choices) ==
    /\ spintax_pc = "idle"
    /\ spintax_text' = text_with_spintax
    /\ spintax_result' = process_spintax_in_text(text_with_spintax, choices)
    /\ spintax_pc' = "done"
    /\ UNCHANGED << rlvars, stop_clicks, jobvars, boundary_tag_cache_for_this_job,
                    resolved_values, resolve_pc, poolvars, rendervars >>
    /\ UNCHANGED << OrchestratorVars, pending_signals, bw, task, sent, transport_ok, completed_emitted, jobs_handed >>

\* the caller goes on to its next text
SpintaxNextText ==
    /\ spintax_pc = "done"
    /\ spintax_text' = <<>>
    /\ spintax_result' = <<>>
    /\ spintax_pc' = "idle"
    /\ UNCHANGED << rlvars, stop_clicks, jobvars, boundary_tag_cache_for_this_job,
                    resolved_values, resolve_pc, poolvars, rendervars >>
    /\ UNCHANGED << OrchestratorVars, pending_signals, bw, task, sent, transport_ok, completed_emitted, jobs_handed >>

\* ---- rate limiter pool: load_configured_generic_smtp_servers and the loading loop ----

\* nicknames of generic-SMTP servers, in the order of the consolidated file
NicknameOrder == << "smtp1", "smtp2" >>

Nicknames == Range(NicknameOrder)

PoolWorkers == 1..MaxPoolWorkers

\* a dictionary without keys: the pool before the first reload, no batch worker
EmptyDict == [k \in {} |-> 0]

\* how many of the nicknames up to position i of the file get a new limiter
RECURSIVE CreatedUpTo(_, _)
CreatedUpTo(configured, i) ==
    IF i = 0 THEN 0
    ELSE CreatedUpTo(configured, i - 1) +
         (IF NicknameOrder[i] \in configured \ DOMAIN rate_limiters_pool THEN 1 ELSE 0)

\* the limiter object stored for the nickname at position i by one reload
ReloadedLimiter(configured, i) ==
    IF NicknameOrder[i] \in DOMAIN rate_limiters_pool
    THEN rate_limiters_pool[NicknameOrder[i]]
    ELSE limiters_created + CreatedUpTo(configured, i)

\* load_configured_generic_smtp_servers: a limiter is created for each configured
\* nickname that has none, kept for each that has one, and deleted for each
\* nickname that is no longer configured
ReloadServers(configured) ==
    /\ UNCHANGED << rlvars, stop_clicks, jobvars, boundary_tag_cache_for_this_job,
                    resolved_values, resolve_pc, spinvars, rendervars >>
    /\ UNCHANGED << OrchestratorVars, pending_signals, bw, task, sent, transport_ok, completed_emitted, jobs_handed >>
    /\ limiters_created + CreatedUpTo(configured, Len(NicknameOrder)) <= MaxLimiters
    /\ rate_limiters_pool' = [n \in configured |->
           ReloadedLimiter(configured, CHOOSE i \in DOMAIN NicknameOrder : NicknameOrder[i] = n)]
    /\ limiters_created' = limiters_created + CreatedUpTo(configured, Len(NicknameOrder))
    /\ UNCHANGED pool_workers

\* OptimizedEmailSenderThread.__init__ for a batch whose SMTP job carries the
\* nickname of its prepared configuration: "rate_limiters_pool or {}" keeps the
\* central dictionary only when it is not empty
DispatchPoolWorker(w, nickname) ==
    /\ UNCHANGED << rlvars, stop_clicks, jobvars, boundary_tag_cache_for_this_job,
                    resolved_values, resolve_pc, spinvars, rendervars >>
    /\ UNCHANGED << OrchestratorVars, pending_signals, bw, task, sent, transport_ok, completed_emitted, jobs_handed >>
    /\ w \notin DOMAIN pool_workers
    /\ pool_workers' = [x \in DOMAIN pool_workers \cup {w} |->
           IF x = w
           THEN [st |-> "loading", nickname |-> nickname,
                 shares_pool |-> DOMAIN rate_limiters_pool # {},
                 rate_limiter |-> 0, throttled_by |-> 0]
           ELSE pool_workers[x]]
    /\ UNCHANGED << rate_limiters_pool, limiters_created >>

\* the limiter a worker finds under the job's nickname in the dictionary it
\* holds, 0 when the nickname is not a key
PoolLookup(r) ==
    IF r.shares_pool /\ r.nickname \in DOMAIN rate_limiters_pool
    THEN rate_limiters_pool[r.nickname] ELSE 0

\* one iteration of the loading loop for a generic-SMTP job: the limiter found
\* under the job's nickname is attached, and the job is added in either case
LoadSmtpJob(w) ==
    /\ UNCHANGED << rlvars, stop_clicks, jobvars, boundary_tag_cache_for_this_job,
                    resolved_values, resolve_pc, spinvars, rendervars >>
    /\ UNCHANGED << OrchestratorVars, pending_signals, bw, task, sent, transport_ok, completed_emitted, jobs_handed >>
    /\ w \in DOMAIN pool_workers
    /\ pool_workers[w].st = "loading"
    /\ pool_workers' = [pool_workers EXCEPT ![w].st = "queued",
                                            ![w].rate_limiter = PoolLookup(pool_workers[w])]
    /\ UNCHANGED << rate_limiters_pool, limiters_created >>

\* send_email_via_smtp: acquire is called on the attached limiter, if any
AttemptSmtpJob(w) ==
    /\ UNCHANGED << rlvars, stop_clicks, jobvars, boundary_tag_cache_for_this_job,
                    resolved_values, resolve_pc, spinvars, rendervars >>
    /\ UNCHANGED << OrchestratorVars, pending_signals, bw, task, sent, transport_ok, completed_emitted, jobs_handed >>
    /\ w \in DOMAIN pool_workers
    /\ pool_workers[w].st = "queued"
    /\ pool_workers' = [pool_workers EXCEPT ![w].st = "attempted",
                                            ![w].throttled_by = pool_workers[w].rate_limiter]
    /\ UNCHANGED << rate_limiters_pool, limiters_created >>

\* the batch worker ends and its slot is free for the next batch
PoolWorkerEnds(w) ==
    /\ UNCHANGED << rlvars, stop_clicks, jobvars, boundary_tag_cache_for_this_job,
                    resolved_values, resolve_pc, spinvars, rendervars >>
    /\ UNCHANGED << OrchestratorVars, pending_signals, bw, task, sent, transport_ok, completed_emitted, jobs_handed >>
    /\ w \in DOMAIN pool_workers
    /\ pool_workers[w].st = "attempted"
    /\ pool_workers' = [x \in DOMAIN pool_workers \ {w} |-> pool_workers[x]]
    /\ UNCHANGED << rate_limiters_pool, limiters_created >>

\* ---- rendering of one job: create_fully_prepared_email_job, character by character ----

\* texts are sequences of characters
First(S) == CHOOSE x \in S : \A y \in S : x <= y

\* re.IGNORECASE over the letters of the keys
UpperToLower == [K |-> "k", E |-> "e"]
LowerCase(c) == IF c \in DOMAIN UpperToLower THEN UpperToLower[c] ELSE c

\* \s
WhiteSpace == {" ", "\n"}

\* the literal lit stands at position i of text
LiteralAt(text, i, lit) ==
    /\ i >= 1
    /\ i + Len(lit) - 1 <= Len(text)
    /\ \A k \in 1..Len(lit) : text[i + k - 1] = lit[k]

\* re.escape(key) under re.IGNORECASE stands at position i of text
LiteralAtIgnoreCase(text, i, lit) ==
    /\ i >= 1
    /\ i + Len(lit) - 1 <= Len(text)
    /\ \A k \in 1..Len(lit) : LowerCase(text[i + k - 1]) = LowerCase(lit[k])

\* \s* from position i: the position of the first character that is no whitespace
SkipSpaces(text, i) ==
    First({j \in i..(Len(text) + 1) :
              /\ \A k \in i..(j - 1) : text[k] \in WhiteSpace
              /\ j > Len(text) \/ text[j] \notin WhiteSpace})

\* a match of \{\{\s*key\s*\}\} that starts at position i: the position behind
\* it, 0 when there is none
PlaceholderEnd(key, text, i) ==
    IF ~LiteralAt(text, i, << "{", "{" >>) THEN 0
    ELSE LET a == SkipSpaces(text, i + 2)
         IN IF ~LiteralAtIgnoreCase(text, a, key) THEN 0
            ELSE LET b == SkipSpaces(text, a + Len(key))
                 IN IF LiteralAt(text, b, << "}", "}" >>) THEN b + 2 ELSE 0

RECURSIVE ReplacePlaceholders(_, _, _, _)
\* the matches of the placeholder of key in text from position from on, from
\* left to right, each replaced by replacement
ReplacePlaceholders(key, replacement, text, from) ==
    LET starts == {i \in from..Len(text) : PlaceholderEnd(key, text, i) > 0}
    IN IF starts = {} THEN SubSeq(text, from, Len(text))
       ELSE LET i == First(starts)
            IN SubSeq(text, from, i - 1) \o replacement
                   \o ReplacePlaceholders(key, replacement, text,
                                          PlaceholderEnd(key, text, i))

\* the escapes re.sub knows in a replacement string
TemplateEscapes == [c \in {"n", "\\"} |-> IF c = "n" THEN "\n" ELSE "\\"]
\* \1..\9 name a group of the pattern; the placeholder pattern has none
GroupDigits == {"1", "2"}
\* a backslash before any other ASCII letter is a bad escape
BadEscapeLetters == {"p", "A"}

RECURSIVE ExpandTemplate(_, _)
\* re.sub reads its replacement string as a template: the text it inserts for
\* the characters from position i on, or ok = FALSE where it raises re.error
ExpandTemplate(repl, i) ==
    IF i > Len(repl) THEN [ok |-> TRUE, text |-> <<>>]
    ELSE IF repl[i] # "\\"
    THEN LET rest == ExpandTemplate(repl, i + 1)
         IN [ok |-> rest.ok, text |-> << repl[i] >> \o rest.text]
    ELSE IF i = Len(repl) THEN [ok |-> FALSE, text |-> <<>>]
    ELSE LET c == repl[i + 1]
             rest == ExpandTemplate(repl, i + 2)
         IN IF c \in DOMAIN TemplateEscapes
            THEN [ok |-> rest.ok, text |-> << TemplateEscapes[c] >> \o rest.text]
            ELSE IF c \in GroupDigits \cup BadEscapeLetters
            THEN [ok |-> FALSE, text |-> <<>>]
            ELSE [ok |-> rest.ok, text |-> << "\\", c >> \o rest.text]

\* try: resolved_text_str = re.sub(pattern of key, str(value), resolved_text_str,
\* flags=re.IGNORECASE) except re.error: print(...)
SubstitutePlaceholder(key, value, resolved_text_str) ==
    IF \A i \in DOMAIN value : value[i] # "\\"
    THEN ReplacePlaceholders(key, value, resolved_text_str, 1)
    ELSE LET template == ExpandTemplate(value, 1)
         IN IF template.ok
            THEN ReplacePlaceholders(key, template.text, resolved_text_str, 1)
            ELSE resolved_text_str

RECURSIVE SubstituteItems(_, _, _)
\* for key, value in items.items(): the first n items of the dictionary, in
\* the order they were inserted
SubstituteItems(items, n, text) ==
    IF n = 0 THEN text
    ELSE SubstitutePlaceholder(items[n][1], items[n][2],
                               SubstituteItems(items, n - 1, text))

\* key in items, for a dictionary kept as its items
DictHas(items, key) == \E i \in DOMAIN items : items[i][1] = key

\* dict.get(key, default) of a dictionary kept as its items
DictGet(items, key, default) ==
    IF DictHas(items, key)
    THEN items[CHOOSE i \in DOMAIN items : items[i][1] = key][2]
    ELSE default

\* CHAR_SETS as its items, three characters of every family at most
CHAR_SETS ==
    << << << "n" >>, << "7", "8" >> >>,
       << << "l" >>, << "q", "z" >> >>,
       << << "u" >>, << "Q", "Z" >> >>,
       << << "s" >>, << "!", "|" >> >>,
       << << "a" >>, << "q", "Q", "7" >> >>,
       << << "l", "u" >>, << "q", "Q" >> >>,
       << << "l", "n" >>, << "q", "7" >> >>,
       << << "u", "n" >>, << "Q", "7" >> >> >>

\* generate_random_string: every random.choice of the call draws the same index
generate_random_string(length, char_set_key, draw) ==
    LET chars_to_use == DictGet(CHAR_SETS, char_set_key,
                                DictGet(CHAR_SETS, << "a" >>, <<>>))
    IN [i \in 1..length |-> chars_to_use[((draw - 1) % Len(chars_to_use)) + 1]]

DigitOrder == << "0", "1", "2", "3", "4", "5", "6", "7", "8", "9" >>
IsDigit(c) == \E k \in DOMAIN DigitOrder : DigitOrder[k] = c
DigitValue(c) == (CHOOSE k \in DOMAIN DigitOrder : DigitOrder[k] = c) - 1

RECURSIVE ParseInt(_)
\* int(length_str)
ParseInt(length_str) ==
    IF length_str = <<>> THEN 0
    ELSE 10 * ParseInt(SubSeq(length_str, 1, Len(length_str) - 1))
             + DigitValue(length_str[Len(length_str)])

\* str.strip()
StripText(t) ==
    LET kept == {i \in DOMAIN t : t[i] \notin WhiteSpace}
    IN IF kept = {} THEN <<>>
       ELSE SubSeq(t, First(kept), CHOOSE x \in kept : \A y \in kept : x >= y)

CharsetLetters == {"n", "a", "l", "u", "s"}

\* re.match(r"^(rnd|bnd)([nalus]{1,2})_(\d+)$", tag_content_key): the groups,
\* or ok = FALSE
VarLenTagMatch(tag_content_key) ==
    LET n == Len(tag_content_key)
        widths == {w \in 1..2 :
                      /\ n >= 3 + w + 2
                      /\ \A k \in 4..(3 + w) : tag_content_key[k] \in CharsetLetters
                      /\ tag_content_key[3 + w + 1] = "_"
                      /\ \A k \in (3 + w + 2)..n : IsDigit(tag_content_key[k])}
    IN IF (LiteralAt(tag_content_key, 1, << "r", "n", "d" >>) \/ LiteralAt(tag_content_key, 1, << "b", "n", "d" >>))
              /\ widths # {}
       THEN LET w == First(widths)
            IN [ok |-> TRUE,
                tag_kind_prefix |-> SubSeq(tag_content_key, 1, 3),
                char_set_suffix |-> SubSeq(tag_content_key, 4, 3 + w),
                length_str |-> SubSeq(tag_content_key, 3 + w + 2, n)]
       ELSE [ok |-> FALSE, tag_kind_prefix |-> <<>>, char_set_suffix |-> <<>>,
             length_str |-> <<>>]

MaxTagLength == 1024  \* if not (0 < length_int <= 1024)

TokenTag == << "#", "{", "{", "[", "t", "o", "k", "e", "n", "]", "}", "}" >>
DateNow == << "2", "0", "2", "6" >>   \* datetime.now().strftime(...)

\* the text before the first "@" of the recipient, "" without an "@"
NameOfRecipient(recipient_email_str) ==
    LET ats == {i \in DOMAIN recipient_email_str : recipient_email_str[i] = "@"}
    IN IF ats = {} THEN <<>> ELSE SubSeq(recipient_email_str, 1, First(ats) - 1)

\* a value of the cache, or a fresh string that is put into the cache
FromCache(full_matched_tag, length, char_set_key, cache, draws, used) ==
    IF full_matched_tag \in DOMAIN cache
    THEN [text |-> cache[full_matched_tag], cache |-> cache, used |-> used]
    ELSE LET fresh == generate_random_string(length, char_set_key,
                                             draws[(used % Len(draws)) + 1])
         IN [text |-> fresh, cache |-> (full_matched_tag :> fresh) @@ cache,
             used |-> used + 1]

\* a replacement that generates nothing
Replacement(text, cache, used) == [text |-> text, cache |-> cache, used |-> used]

\* a replacement by a fresh string that is not cached
FreshString(length, char_set_key, cache, draws, used) ==
    [text |-> generate_random_string(length, char_set_key,
                                     draws[(used % Len(draws)) + 1]),
     cache |-> cache, used |-> used + 1]

\* the tags that return an entry of job_specific_context_dict: tag name -> key
ContextTags ==
    << << << "i", "d", "e" >>, << "e", "m", "a", "i", "l", "_", "i", "d" >> >>,
       << << "f", "r", "o", "m", "n", "a", "m", "e" >>, << "c", "u", "r", "r", "e", "n", "t", "_", "f", "r", "o", "m", "_", "n", "a", "m", "e", "_", "f", "o", "r", "_", "j", "o", "b" >> >>,
       << << "s", "u", "b", "j", "e", "c", "t" >>, << "c", "u", "r", "r", "e", "n", "t", "_", "s", "u", "b", "j", "e", "c", "t", "_", "f", "o", "r", "_", "j", "o", "b" >> >>,
       << << "t", "o" >>, << "c", "u", "r", "r", "e", "n", "t", "_", "r", "e", "c", "i", "p", "i", "e", "n", "t", "_", "e", "m", "a", "i", "l" >> >>,
       << << "s", "m", "t", "p" >>, << "s", "m", "t", "p", "_", "u", "s", "e", "r", "n", "a", "m", "e", "_", "f", "o", "r", "_", "t", "a", "g" >> >>,
       << << "s", "m", "t", "p", "_", "n", "a", "m", "e" >>, << "s", "m", "t", "p", "_", "s", "e", "r", "v", "e", "r", "_", "n", "i", "c", "k", "n", "a", "m", "e", "_", "f", "o", "r", "_", "t", "a", "g" >> >> >>

\* the tags that return a fresh alphanumeric string: tag name -> length
FreshTags == << << << "t", "a", "g" >>, 8 >>, << << "r", "n", "d" >>, 18 >> >>

\* the {{[rnd<charset>_<N>]}} and {{[bnd<charset>_<N>]}} tags
VarLenReplacement(full_matched_tag, var_len_tag_match, length_int, cache, draws, used) ==
    IF ~(0 < length_int /\ length_int <= MaxTagLength)
    THEN Replacement(full_matched_tag, cache, used)
    ELSE IF var_len_tag_match.tag_kind_prefix = << "b", "n", "d" >>
    THEN FromCache(full_matched_tag, length_int, var_len_tag_match.char_set_suffix,
                   cache, draws, used)
    ELSE FreshString(length_int, var_len_tag_match.char_set_suffix, cache, draws, used)

\* the general {{[...]}} tags by their content
TagReplacement(full_matched_tag, tag_content_key, job_specific_context_dict, cache, draws, used) ==
    IF DictHas(ContextTags, tag_content_key)
    THEN Replacement(DictGet(job_specific_context_dict,
                             DictGet(ContextTags, tag_content_key, <<>>), <<>>),
                     cache, used)
    ELSE IF tag_content_key = << "d", "a", "t", "e" >> THEN Replacement(DateNow, cache, used)
    ELSE IF DictHas(FreshTags, tag_content_key)
    THEN FreshString(DictGet(FreshTags, tag_content_key, 0), << "a" >>, cache, draws,
                     used)
    ELSE IF tag_content_key = << "n", "a", "m", "e" >>
    THEN Replacement(NameOfRecipient(DictGet(job_specific_context_dict,
                                             << "c", "u", "r", "r", "e", "n", "t", "_", "r", "e", "c", "i", "p", "i", "e", "n", "t", "_", "e", "m", "a", "i", "l" >>, <<>>)),
                     cache, used)
    ELSE IF VarLenTagMatch(tag_content_key).ok
    THEN VarLenReplacement(full_matched_tag, VarLenTagMatch(tag_content_key),
                           ParseInt(VarLenTagMatch(tag_content_key).length_str),
                           cache, draws, used)
    ELSE Replacement(full_matched_tag, cache, used)

\* dynamic_tag_replacer_func(match_object): the replacement, the cache and the
\* number of generate_random_string calls afterwards
dynamic_tag_replacer_func(full_matched_tag, job_specific_context_dict, cache, draws, used) ==
    IF full_matched_tag = TokenTag
    THEN FromCache(full_matched_tag, 12, << "a" >>, cache, draws, used)
    ELSE TagReplacement(full_matched_tag,
                        StripText(SubSeq(full_matched_tag, 4,
                                         Len(full_matched_tag) - 3)),
                        job_specific_context_dict, cache, draws, used)

\* a match of (#\{\{\[token\]\}\}|\{\{\[.*?\]\}\}) that starts at position i: the
\* position behind it, 0 when there is none
DynamicTagEnd(text, i) ==
    IF LiteralAt(text, i, TokenTag) THEN i + Len(TokenTag)
    ELSE IF ~LiteralAt(text, i, << "{", "{", "[" >>) THEN 0
    ELSE LET closes == {j \in (i + 3)..Len(text) :
                           /\ LiteralAt(text, j, << "]", "}", "}" >>)
                           /\ \A k \in (i + 3)..(j - 1) : text[k] # "\n"}
         IN IF closes = {} THEN 0 ELSE First(closes) + 3

RECURSIVE ResolveDynamicTags(_, _, _, _, _, _)
\* dynamic_tag_pattern_regex.sub(dynamic_tag_replacer_func, resolved_text_str)
\* from position from on: what a replacement returns is not searched again
ResolveDynamicTags(text, from, job_specific_context_dict, cache, draws, used) ==
    LET starts == {i \in from..Len(text) : DynamicTagEnd(text, i) > 0}
    IN IF starts = {}
       THEN [text |-> SubSeq(text, from, Len(text)), cache |-> cache, used |-> used]
       ELSE LET i == First(starts)
                e == DynamicTagEnd(text, i)
                r == dynamic_tag_replacer_func(SubSeq(text, i, e - 1),
                         job_specific_context_dict, cache, draws, used)
                rest == ResolveDynamicTags(text, e, job_specific_context_dict,
                                           r.cache, draws, r.used)
            IN [text |-> SubSeq(text, from, i - 1) \o r.text \o rest.text,
                cache |-> rest.cache, used |-> rest.used]

\* _resolve_all_placeholders_and_tags on a text of characters: the data
\* placeholders, then the context placeholders, then the dynamic tags
resolved_text_str(text_template_input, data_list_row_dict, job_specific_context_dict, cache, draws, used) ==
    LET items == data_list_row_dict \o job_specific_context_dict
    IN ResolveDynamicTags(SubstituteItems(items, Len(items), text_template_input),
                          1, job_specific_context_dict, cache, draws, used)

\* the values the caller passes in
GeneratedJobId == << "i", "d", "1" >>
PrimaryRecipient == << "r", "@", "x" >>
SmtpUsername == << "u", "s", "r" >>
SmtpNickname == << "s", "m", "t", "p", "1" >>
NoSubject == << "N", "o", " ", "S", "u", "b", "j", "e", "c", "t" >>

\* job_specific_context_dict as create_fully_prepared_email_job builds it for a
\* generic-SMTP sender
InitialJobContext ==
    << << << "e", "m", "a", "i", "l", "_", "i", "d" >>, GeneratedJobId >>,
       << << "c", "u", "r", "r", "e", "n", "t", "_", "r", "e", "c", "i", "p", "i", "e", "n", "t", "_", "e", "m", "a", "i", "l" >>, PrimaryRecipient >>,
       << << "s", "m", "t", "p", "_", "u", "s", "e", "r", "n", "a", "m", "e", "_", "f", "o", "r", "_", "t", "a", "g" >>, SmtpUsername >>,
       << << "s", "m", "t", "p", "_", "s", "e", "r", "v", "e", "r", "_", "n", "i", "c", "k", "n", "a", "m", "e", "_", "f", "o", "r", "_", "t", "a", "g" >>, SmtpNickname >> >>

\* create_fully_prepared_email_job for a generic-SMTP sender, without an HTML
\* body and without custom headers, is entered: the cache is empty and the
\* context holds the job id, the recipient and the sender
EnterEmailJob(subject_template, from_name_template, body_plain_template, row_data_dict, draws, choices) ==
    /\ email_job_dict = EmptyDict
    /\ email_job_dict' =
           [pc |-> "subject",
            subject_template |-> subject_template,
            from_name_template |-> from_name_template,
            body_plain_template |-> body_plain_template,
            row_data_dict |-> row_data_dict,
            draws |-> draws,
            choices |-> choices,
            job_specific_context_dict |-> InitialJobContext,
            boundary_tag_cache_for_this_job |-> EmptyDict,
            used |-> 0,
            subject_after_placeholders_tags |-> <<>>,
            subject |-> <<>>,
            from_name |-> <<>>,
            plainBody |-> <<>>]
    /\ UNCHANGED << rlvars, stop_clicks, jobvars, boundary_tag_cache_for_this_job,
                    resolved_values, resolve_pc, spinvars, poolvars >>
    /\ UNCHANGED << OrchestratorVars, pending_signals, bw, task, sent, transport_ok, completed_emitted, jobs_handed >>

\* self._resolve_all_placeholders_and_tags(template, row_data_dict,
\* job_specific_context_dict, boundary_tag_cache_for_this_job) of the job
ResolvedTemplate(text_template_input) ==
    resolved_text_str(text_template_input, email_job_dict.row_data_dict,
                      email_job_dict.job_specific_context_dict,
                      email_job_dict.boundary_tag_cache_for_this_job,
                      email_job_dict.draws, email_job_dict.used)

\* the subject: placeholders and tags, then spintax, "No Subject" for an empty
\* result; the result is put into the context
ResolveSubject ==
    /\ email_job_dict # EmptyDict
    /\ email_job_dict.pc = "subject"
    /\ LET after == ResolvedTemplate(email_job_dict.subject_template)
           spun == process_spintax_in_text(after.text, email_job_dict.choices)
           final_resolved_subject == IF spun = <<>> THEN NoSubject ELSE spun
       IN email_job_dict' =
              [email_job_dict EXCEPT
                  !.pc = "from_name",
                  !.subject_after_placeholders_tags = after.text,
                  !.subject = final_resolved_subject,
                  !.boundary_tag_cache_for_this_job = after.cache,
                  !.used = after.used,
                  !.job_specific_context_dict =
                      Append(@, << << "c", "u", "r", "r", "e", "n", "t", "_", "s", "u", "b", "j", "e", "c", "t", "_", "f", "o", "r", "_", "j", "o", "b" >>,
                                   final_resolved_subject >>)]
    /\ UNCHANGED << rlvars, stop_clicks, jobvars, boundary_tag_cache_for_this_job,
                    resolved_values, resolve_pc, spinvars, poolvars >>
    /\ UNCHANGED << OrchestratorVars, pending_signals, bw, task, sent, transport_ok, completed_emitted, jobs_handed >>

\* the from name: placeholders and tags, then spintax; the result is put into
\* the context
ResolveFromName ==
    /\ email_job_dict # EmptyDict
    /\ email_job_dict.pc = "from_name"
    /\ LET after == ResolvedTemplate(email_job_dict.from_name_template)
           final_resolved_from_name_display ==
               process_spintax_in_text(after.text, email_job_dict.choices)
       IN email_job_dict' =
              [email_job_dict EXCEPT
                  !.pc = "body_plain",
                  !.from_name = final_resolved_from_name_display,
                  !.boundary_tag_cache_for_this_job = after.cache,
                  !.used = after.used,
                  !.job_specific_context_dict =
                      Append(@, << << "c", "u", "r", "r", "e", "n", "t", "_", "f", "r", "o", "m", "_", "n", "a", "m", "e", "_", "f", "o", "r", "_", "j", "o", "b" >>,
                                   final_resolved_from_name_display >>)]
    /\ UNCHANGED << rlvars, stop_clicks, jobvars, boundary_tag_cache_for_this_job,
                    resolved_values, resolve_pc, spinvars, poolvars >>
    /\ UNCHANGED << OrchestratorVars, pending_signals, bw, task, sent, transport_ok, completed_emitted, jobs_handed >>

\* the plain body, when there is a template for it, and the job is returned
ResolveBodyPlain ==
    /\ email_job_dict # EmptyDict
    /\ email_job_dict.pc = "body_plain"
    /\ IF email_job_dict.body_plain_template = <<>>
       THEN email_job_dict' = [email_job_dict EXCEPT !.pc = "prepared"]
       ELSE LET after == ResolvedTemplate(email_job_dict.body_plain_template)
            IN email_job_dict' =
                   [email_job_dict EXCEPT
                       !.pc = "prepared",
                       !.plainBody =
                           process_spintax_in_text(after.text, email_job_dict.choices),
                       !.boundary_tag_cache_for_this_job = after.cache,
                       !.used = after.used]
    /\ UNCHANGED << rlvars, stop_clicks, jobvars, boundary_tag_cache_for_this_job,
                    resolved_values, resolve_pc, spinvars, poolvars >>
    /\ UNCHANGED << OrchestratorVars, pending_signals, bw, task, sent, transport_ok, completed_emitted, jobs_handed >>

\* the caller goes on to its next row
NextEmailJob ==
    /\ email_job_dict # EmptyDict
    /\ email_job_dict.pc = "prepared"
    /\ email_job_dict' = EmptyDict
    /\ UNCHANGED << rlvars, stop_clicks, jobvars, boundary_tag_cache_for_this_job,
                    resolved_values, resolve_pc, spinvars, poolvars >>
    /\ UNCHANGED << OrchestratorVars, pending_signals, bw, task, sent, transport_ok, completed_emitted, jobs_handed >>

\* the characters the values of a data row are made of
ValueAlphabet == {"\\", "n", "1", "p", ".", "A"}
RowValues ==
    UNION {[1..k -> ValueAlphabet] : k \in 0..MaxValueLen}
        \cup {<< "{", "{", "e", "m", "a", "i", "l", "_", "i", "d", "}", "}" >>, << "{", "{", "[", "t", "o", "]", "}", "}" >>, << "{", "A", "|", "B", "}" >>}
\* row_data_dict as its items; the keys are cleaned (lower case)
RowDataDicts ==
    {<<>>} \cup {<< << << "k" >>, v >> >> : v \in RowValues}
        \cup {<< << << "e", "m", "a", "i", "l", "_", "i", "d" >>, << "A" >> >> >>}

PlaceholderExample == << "x", "{", "{", " ", "K", " ", "}", "}", "y" >>
ContextExample == << "{", "{", "E", "m", "a", "i", "l", "_", "i", "d", "}", "}" >>
LateTagExample == << "{", "{", "[", "d", "a", "{", "|", "}", "t", "e", "]", "}", "}" >>
PlaceholderSubjects ==
    {<<>>, PlaceholderExample, ContextExample, << "{", "{", "k", "}", "}" >>, LateTagExample, << "{", "A", "|", "B", "}" >>}

\* the tags {{[<prefix><charset>_<N>]}}
TagPrefixes == {<< "r", "n", "d" >>, << "b", "n", "d" >>}
TagCharsets ==
    UNION {[1..k -> CharsetLetters] : k \in 1..2} \cup {<< "x" >>}
TagLengths == {<< "0" >>, << "2" >>}
BoundaryLengths == {<< "1", "0", "2", "4" >>, << "1", "0", "2", "5" >>}
BoundaryCharsets == {<< "n" >>, << "l", "u" >>}
VarLenTag(prefix, charset, length_str) ==
    << "{", "{", "[" >> \o prefix \o charset \o << "_" >> \o length_str \o << "]", "}", "}" >>
VarLenTags ==
    {VarLenTag(p, c, n) : p \in TagPrefixes, c \in TagCharsets, n \in TagLengths}
        \cup {VarLenTag(p, c, n) : p \in TagPrefixes, c \in BoundaryCharsets,
                                   n \in BoundaryLengths}
UnlistedTags == {<< "{", "{", "[", "n", "o", "p", "e", "]", "}", "}" >>, << "{", "{", "[", "]", "}", "}" >>, << "{", "{", "[", "r", "n", "d", "n", "_", "-", "1", "]", "}", "}" >>}
ListedTags == {<< "{", "{", "[", "d", "a", "t", "e", "]", "}", "}" >>, << "{", "{", "[", " ", "d", "a", "t", "e", " ", "]", "}", "}" >>, << "{", "{", "[", "i", "d", "e", "]", "}", "}" >>, << "{", "{", "[", "t", "o", "]", "}", "}" >>, << "{", "{", "[", "n", "a", "m", "e", "]", "}", "}" >>, << "{", "{", "[", "s", "m", "t", "p", "]", "}", "}" >>, TokenTag}
TagSubjects == VarLenTags \cup UnlistedTags \cup ListedTags

FromNameTemplates == {<<>>, << "{", "{", "[", "s", "u", "b", "j", "e", "c", "t", "]", "}", "}" >>}
SubjectPlaceholder == << "{", "{", "c", "u", "r", "r", "e", "n", "t", "_", "s", "u", "b", "j", "e", "c", "t", "_", "f", "o", "r", "_", "j", "o", "b", "}", "}" >>
BodyPlainTemplates == {<<>>, SubjectPlaceholder, << "{", "{", "[", "f", "r", "o", "m", "n", "a", "m", "e", "]", "}", "}", "{", "{", "k", "}", "}" >>}
DrawSupplies == [1..MaxRandomCalls -> 1..MaxDrawIndex]
FirstDraws == [i \in 1..MaxRandomCalls |-> 1]
FirstChoices == [i \in 1..MaxSpintaxChoices |-> 1]

\* ---- test-send ----

\* the texts of test_email_address_input_field
TestAddressInputs == {"", "not-an-address", "a@x.org"}

\* on_primary_email_success_trigger_test and dispatch_single_test_email, for
\* the primary_email_sent_successfully signal of a job that was counted as
\* sent; count_reached: primary_emails_sent_since_last_test has reached
\* the value of test_after_x_emails_spinbox_ref
PrimarySuccessTriggerTest(target_test_address, count_reached) ==
    /\ UNCHANGED << rlvars, stop_clicks, tagvars, job_type, recipients_to_list, rows_without_recipients >>
    /\ ctl = "idle"
    /\ \/ \E w \in JobIds : bw[w].successful_in_batch > 0
       \/ total_emails_successful_overall > 0
    /\ Len(active_test_email_workers) < MaxTestWorkers
    /\ active_test_email_workers' =
           IF /\ target_test_address # ""
              /\ target_test_address \in ValidAddresses   \* "@" in target_test_address
              /\ count_reached
           THEN Append(active_test_email_workers, <<target_test_address>>)
           ELSE active_test_email_workers
    /\ UNCHANGED << OrchestratorVars, pending_signals, bw, task, sent, transport_ok, completed_emitted, jobs_handed >>

\* on_test_email_worker_finished: the test-send worker has sent its one job
TestEmailWorkerFinished ==
    /\ UNCHANGED << rlvars, stop_clicks, tagvars, job_type, recipients_to_list, rows_without_recipients >>
    /\ ctl = "idle"
    /\ active_test_email_workers # <<>>
    /\ active_test_email_workers' = Tail(active_test_email_workers)
    /\ UNCHANGED << OrchestratorVars, pending_signals, bw, task, sent, transport_ok, completed_emitted, jobs_handed >>

\* ---- specification ----

\* the state after construction, the batch size setting apart
MainInitButBatchSize ==
    /\ email_job_queue = <<>>
    /\ jobs_prepared = 0
    /\ current_job_index_for_dispatch = 0
    /\ active_batch_send_workers = <<>>
    /\ queue_processing_active = FALSE
    /\ is_paused_flag = FALSE
    /\ total_emails_processed_overall = 0
    /\ total_emails_successful_overall = 0
    /\ max_concurrent_sends_per_batch_worker \in 1..MaxConcurrency
    /\ pending_timers = 0
    /\ pending_signals = <<>>
    /\ ctl = "idle"
    /\ stop_list = <<>>
    /\ bw = [w \in JobIds |-> NoWorker]
    /\ task = [j \in JobIds |-> "none"]
    /\ sent = [j \in JobIds |-> 0]
    /\ transport_ok = 0
    /\ completed_emitted = 0
    /\ jobs_handed = 0
    /\ finalized = FALSE
    /\ last_stop = "none"
    /\ clicks = 0
    /\ stop_clicks = 0
    /\ last_handler = "other"
    /\ pause_history = "none"
    /\ job_type = [j \in JobIds |-> "none"]
    /\ recipients_to_list = [j \in JobIds |-> <<>>]
    /\ rows_without_recipients = 0
    /\ active_test_email_workers = <<>>
    /\ boundary_tag_cache_for_this_job = EmptyCache
    /\ resolved_values = NoValues
    /\ resolve_pc = 1
    /\ spintax_text = <<>>
    /\ spintax_result = <<>>
    /\ spintax_pc = "idle"
    /\ rate_limiters_pool = EmptyDict
    /\ limiters_created = 0
    /\ pool_workers = EmptyDict
    /\ email_job_dict = EmptyDict

MainInit ==
    /\ MainInitButBatchSize
    /\ batch_size_for_main_workers \in 1..MaxBatchSize

\* the rate-limiter variables while no limiter is exercised
RateLimiterIdle ==
    /\ tokens = 0
    /\ last_update = 0
    /\ emails_per_second = MinRate
    /\ burst_size = MinBurst
    /\ now = 0
    /\ acquirers = [c \in 1..NumCallers |->
                        [pc |-> "idle", deadline |-> 0, now |-> 0, rate |-> 0,
                         counted |-> FALSE, available |-> FALSE]]
    /\ reload_pc = "idle"
    /\ reload_burst = 0
    /\ granted = 0
    /\ epoch_start = -1
    /\ lock = 0

Init == MainInit /\ RateLimiterIdle

\* The campaigns of Spec and SpecLive are prepared under one send method: a
\* generic-SMTP job runs with or without a rate limiter, which covers every
\* task behaviour of an Apps Script job.  Job lists of both methods are the
\* subject of SpecKinds.
Next ==
    \/ \E n \in 1..MaxJobsWithStop :
           /\ jobs_prepared + n <= MaxJobsWithStop
           /\ Prepare(PlainRows(n), "absent", "genericsmtp")
    \/ Start
    \/ TimerDispatch
    \/ BatchWorkerFinished
    \/ TogglePauseResume
    \/ StopSignalWorkers
    \/ StopWaitFinished
    \/ StopWaitTimeout
    \/ StopClearAndReturn
    \/ \E w \in JobIds : RunLoadJob(w)
    \/ \E w \in JobIds : RunAfterLoad(w)
    \/ \E w \in JobIds : RunStartProcessing(w)
    \/ \E w \in JobIds : RunLoopPoll(w)
    \/ \E w \in JobIds : RunPopDone(w)
    \/ \E w \in JobIds : RunSubmitNext(w)
    \/ \E w \in JobIds : RunCountResults(w)
    \/ \E w \in JobIds : RunEmitFinished(w)
    \/ \E w \in JobIds : RunManagerStop(w)
    \/ \E w \in JobIds : RunShutdownDone(w)
    \/ \E j \in JobIds : TaskStart(j)
    \/ \E j \in JobIds : TaskStartThrottled(j)
    \/ \E j \in JobIds : TaskAcquired(j)
    \/ \E j \in JobIds : TaskAcquireTimeout(j)
    \/ \E j \in JobIds, res \in {"ok", "fail", "fault"} : TaskFinish(j, res)

Spec == Init /\ [][Next]_vars

\* one step of the batch worker thread w
WorkerStep(w) ==
    \/ RunLoadJob(w)
    \/ RunAfterLoad(w)
    \/ RunStartProcessing(w)
    \/ RunLoopPoll(w)
    \/ RunPopDone(w)
    \/ RunSubmitNext(w)
    \/ RunCountResults(w)
    \/ RunEmitFinished(w)
    \/ RunManagerStop(w)
    \/ RunShutdownDone(w)

\* one step of the pool task of job j
TaskStep(j) ==
    \/ TaskStart(j)
    \/ TaskStartThrottled(j)
    \/ TaskAcquired(j)
    \/ TaskAcquireTimeout(j)
    \/ \E res \in {"ok", "fail", "fault"} : TaskFinish(j, res)

\* Scheduling: every started thread keeps running (batch worker threads, pool
\* threads; acquire and the transports return within their timeouts), and the
\* Qt event loop delivers every timer event and every queued signal.  Clicks
\* of the user are not fair.
Fairness ==
    /\ WF_vars(TimerDispatch)
    /\ WF_vars(BatchWorkerFinished)
    /\ \A w \in JobIds : WF_vars(WorkerStep(w))
    /\ \A j \in JobIds : WF_vars(TaskStep(j))

\* a campaign whose user never clicks Stop
NextNoStop ==
    \/ \E n \in 1..MaxJobs : Prepare(PlainRows(n), "absent", "genericsmtp")
    \/ Start
    \/ TimerDispatch
    \/ BatchWorkerFinished
    \/ TogglePauseResume
    \/ \E w \in JobIds : WorkerStep(w)
    \/ \E j \in JobIds : TaskStep(j)

SpecLive == Init /\ [][NextNoStop]_vars /\ Fairness

\* one campaign: the job list is prepared once, the user may pause and resume
\* and never clicks Stop
NextOneCampaign ==
    \/ \E n \in 1..MaxJobsWithStop :
           jobs_prepared = 0 /\ Prepare(PlainRows(n), "absent", "genericsmtp")
    \/ Start
    \/ TimerDispatch
    \/ BatchWorkerFinished
    \/ TogglePauseResume
    \/ \E w \in JobIds : WorkerStep(w)
    \/ \E j \in JobIds : TaskStep(j)

SpecOneCampaign == Init /\ [][NextOneCampaign]_vars /\ Fairness

\* a deterministic transport: the call for a given job always ends the same
\* way (here the second job is refused by the server, the others are sent)
DeterministicResult(j) == IF j = 2 THEN "fail" ELSE "ok"

\* one step of the pool task of job j under the deterministic transport, with
\* a rate limiter that grants its token in time
TaskStepDeterministic(j) ==
    \/ TaskStart(j)
    \/ TaskStartThrottled(j)
    \/ TaskAcquired(j)
    \/ TaskFinish(j, DeterministicResult(j))

\* one campaign under the deterministic transport: the job list is prepared
\* once, the user may pause and resume and never clicks Stop
NextDeterministic ==
    \/ \E n \in 1..MaxJobs :
           jobs_prepared = 0 /\ Prepare(PlainRows(n), "absent", "genericsmtp")
    \/ Start
    \/ TimerDispatch
    \/ BatchWorkerFinished
    \/ TogglePauseResume
    \/ \E w \in JobIds : WorkerStep(w)
    \/ \E j \in JobIds : TaskStepDeterministic(j)

\* the scheduling of Fairness, for the tasks of the deterministic transport
FairnessDeterministic ==
    /\ WF_vars(TimerDispatch)
    /\ WF_vars(BatchWorkerFinished)
    /\ \A w \in JobIds : WF_vars(WorkerStep(w))
    /\ \A j \in JobIds : WF_vars(TaskStepDeterministic(j))

SpecDeterministic == Init /\ [][NextDeterministic]_vars /\ FairnessDeterministic

\* one campaign that the user may stop: the job list is prepared once, the user
\* does not pause
NextOneStop ==
    \/ \E n \in 1..MaxJobs :
           jobs_prepared = 0 /\ Prepare(PlainRows(n), "absent", "genericsmtp")
    \/ Start
    \/ TimerDispatch
    \/ BatchWorkerFinished
    \/ StopSignalWorkers
    \/ StopWaitFinished
    \/ StopWaitTimeout
    \/ StopClearAndReturn
    \/ \E w \in JobIds : WorkerStep(w)
    \/ \E j \in JobIds : TaskStep(j)

\* The main thread runs the stop handler to its end: QThread.wait returns when
\* the thread has ended or when its timeout has passed.  The batch worker
\* threads are scheduled.  Nothing is assumed of the send tasks: a transport
\* call or an acquire may never return.
StopFairness ==
    /\ WF_vars(StopWaitFinished)
    /\ WF_vars(StopWaitTimeout)
    /\ WF_vars(StopClearAndReturn)
    /\ \A w \in JobIds : WF_vars(WorkerStep(w))

SpecOneStop == Init /\ [][NextOneStop]_vars /\ StopFairness

\* campaigns whose job list is built by prepare actions under either send
\* method; the user neither pauses nor stops
NextKinds ==
    \/ \E n \in 1..MaxJobs, send_method_type \in SendMethods :
           Prepare(PlainRows(n), "absent", send_method_type)
    \/ Start
    \/ TimerDispatch
    \/ BatchWorkerFinished
    \/ \E w \in JobIds : WorkerStep(w)
    \/ \E j \in JobIds : TaskStep(j)

SpecKinds == Init /\ [][NextKinds]_vars

\* the batch size setting is the largest job list: a campaign is one batch
InitOneBatch ==
    /\ MainInitButBatchSize
    /\ batch_size_for_main_workers = MaxJobs
    /\ RateLimiterIdle

\* campaigns of one batch; the user neither pauses nor stops
NextOneBatch ==
    \/ \E n \in 1..MaxJobs : Prepare(PlainRows(n), "absent", "genericsmtp")
    \/ Start
    \/ TimerDispatch
    \/ BatchWorkerFinished
    \/ \E w \in JobIds : WorkerStep(w)
    \/ \E j \in JobIds : TaskStep(j)

SpecOneBatch == InitOneBatch /\ [][NextOneBatch]_vars

\* campaigns whose rows resolve to any recipient field, with or without
\* custom headers, and whose successful sends trigger test-sends; the user
\* neither pauses nor stops
NextRecipients ==
    \/ \E k \in 1..MaxRows, custom_headers \in CustomHeaderKinds :
           \E rows \in [1..k -> RowInputs] : Prepare(rows, custom_headers, "genericsmtp")
    \/ Start
    \/ TimerDispatch
    \/ BatchWorkerFinished
    \/ \E w \in JobIds : WorkerStep(w)
    \/ \E j \in JobIds : TaskStep(j)
    \/ \E target_test_address \in TestAddressInputs, count_reached \in BOOLEAN :
           PrimarySuccessTriggerTest(target_test_address, count_reached)
    \/ TestEmailWorkerFinished

SpecRecipients == Init /\ [][NextRecipients]_vars

\* the preparation of the jobs of successive rows, over all templates
NextTags ==
    \/ \E text_template_input \in Templates, generated \in RandomSupplies :
           ResolveToField(text_template_input, generated)
    \/ \E text_template_input \in Templates, generated \in RandomSupplies :
           ResolveJobTemplate(text_template_input, generated)
    \/ ResolveNextRow

SpecTags == Init /\ [][NextTags]_vars

\* calls of process_spintax_in_text over all texts and random draws
NextSpintax ==
    \/ \E text_with_spintax \in SpintaxTexts, choices \in SpintaxChoiceSupplies :
           ProcessSpintax(text_with_spintax, choices)
    \/ SpintaxNextText

SpecSpintax == Init /\ [][NextSpintax]_vars

\* the arguments and random draws of the calls of create_fully_prepared_email_job:
\* the placeholder templates over the data rows, the same templates over the
\* draws of random.choice, and the tag templates over the draws of
\* generate_random_string
RenderCalls ==
    {<< subject_template, <<>>, body_plain_template, row_data_dict, FirstDraws, FirstChoices >> :
         subject_template \in PlaceholderSubjects, row_data_dict \in RowDataDicts,
         body_plain_template \in BodyPlainTemplates}
    \cup
    {<< subject_template, from_name_template, body_plain_template, <<>>, FirstDraws, choices >> :
         subject_template \in PlaceholderSubjects,
         from_name_template \in FromNameTemplates,
         body_plain_template \in BodyPlainTemplates,
         choices \in SpintaxChoiceSupplies}
    \cup
    {<< subject_template, from_name_template, <<>>, <<>>, draws, FirstChoices >> :
         subject_template \in TagSubjects,
         from_name_template \in FromNameTemplates, draws \in DrawSupplies}

NextRender ==
    \/ \E call \in RenderCalls :
           EnterEmailJob(call[1], call[2], call[3], call[4], call[5], call[6])
    \/ ResolveSubject
    \/ ResolveFromName
    \/ ResolveBodyPlain
    \/ NextEmailJob

SpecRender == Init /\ [][NextRender]_vars

\* the pool of rate limiters alone: reloads of the server file interleaved with
\* batch workers that load and attempt one generic-SMTP job each
NextPool ==
    \/ \E configured \in SUBSET Nicknames : ReloadServers(configured)
    \/ \E w \in PoolWorkers, nickname \in Nicknames : DispatchPoolWorker(w, nickname)
    \/ \E w \in PoolWorkers : LoadSmtpJob(w)
    \/ \E w \in PoolWorkers : AttemptSmtpJob(w)
    \/ \E w \in PoolWorkers : PoolWorkerEnds(w)

SpecPool == Init /\ [][NextPool]_vars

\* ---- properties of the campaign engine (specification Spec) ----

C2_AtMostOneActiveWorker == Len(active_batch_send_workers) <= 1

\* C3: once stop() has returned no send task begins or is still performing a
\* transport call (or waiting in acquire on the way to one).
C3_NoTransportAfterStop ==
    (ctl = "idle" /\ last_stop # "none") =>
        \A j \in JobIds : ~InFlight(task[j]) /\ task[j] # "pending"

C5_InFlightWithinConcurrency ==
    \A w \in JobIds : Cardinality(bw[w].active_futures) <= bw[w].cfg

\* a manager at its concurrency limit after get_completed_jobs admitted a job
C5_Witness ==
    \E w \in JobIds :
        /\ bw[w].cfg >= 1
        /\ Cardinality(bw[w].active_futures) = bw[w].cfg
        /\ bw[w].completed_jobs_count >= 1
        /\ bw[w].is_running

\* C6: when a manager has been driven to completion without stop,
\* completed_jobs_count equals total_jobs_submitted_to_q (every added job),
\* is_finished() is true, and the results drained (succeeded plus failed)
\* number completed_jobs_count.
C6_QueueAccounting ==
    \A w \in JobIds :
        (bw[w].st = "exit" /\ bw[w].is_running_batch_thread) =>
            /\ bw[w].total_jobs_submitted_to_q = Len(bw[w].job_batch)
            /\ bw[w].completed_jobs_count = bw[w].total_jobs_submitted_to_q
            /\ is_finished(bw[w])
            /\ bw[w].completed_in_batch = bw[w].completed_jobs_count
            /\ bw[w].successful_in_batch + bw[w].failed_in_batch
                   = bw[w].completed_in_batch

\* a batch of several jobs driven to completion, one succeeded and one failed
C6_Witness ==
    \E w \in JobIds :
        /\ bw[w].st = "exit"
        /\ bw[w].is_running_batch_thread
        /\ bw[w].successful_in_batch >= 1
        /\ bw[w].failed_in_batch >= 1

\* the campaign is finalized with every job of the list processed and the
\* succeeded counter equal to the transport calls that returned success: the
\* counters of an unpaused run of the same jobs
C9_FinalCounters ==
    /\ finalized
    /\ current_job_index_for_dispatch = Len(email_job_queue)
    /\ total_emails_processed_overall = Len(email_job_queue)
    /\ total_emails_successful_overall = transport_ok

C10_NoDispatchWhilePaused ==
    [][ (is_paused_flag /\ is_paused_flag') =>
          /\ \A w \in JobIds : bw[w].st = "none" => bw'[w].st = "none"
          /\ Len(active_batch_send_workers') <= Len(active_batch_send_workers)
          /\ current_job_index_for_dispatch' <= current_job_index_for_dispatch
          /\ (pending_timers' < pending_timers =>
                 UNCHANGED << current_job_index_for_dispatch, active_batch_send_workers >>)
          /\ (queue_processing_active /\ queue_processing_active' =>
                 \A w \in JobIds :
                     bw[w].is_running_batch_thread =>
                         \/ bw'[w].is_running_batch_thread
                         \/ bw'[w].st \in {"none", "end"}) ]_vars

\* a dispatch ran under pause with jobs still undispatched
C10_Witness ==
    /\ last_handler = "dispatch_while_paused"
    /\ is_paused_flag
    /\ queue_processing_active
    /\ current_job_index_for_dispatch < Len(email_job_queue)

\* C11: on every exit path of run() the manager's stop() is called exactly
\* once and before the batch-finished signal is emitted: no finished signal is
\* in flight to the orchestrator while the worker that emitted it has still to
\* call stop() on its job-queue manager (the finally block of run()).
C11_ManagerStoppedBeforeSignal ==
    \A i \in DOMAIN pending_signals :
        bw[pending_signals[i].w].st # "finally"

\* C21: OptimizedEmailSenderThread.stop() only sets flags and requests
\* cancellation: the step that calls it on every active worker is taken
\* whatever the send tasks are doing, leaves every task that waits in acquire
\* or performs its transport call as it is, and moves no worker along its
\* run(); the manager's blocking shutdown is entered only from the finally
\* block of run().
C21_StopOnlySetsFlags ==
    [][ /\ StopSignalWorkers =>
              /\ \A j \in JobIds : InFlight(task[j]) => task'[j] = task[j]
              /\ \A w \in JobIds :
                    /\ bw'[w].st = bw[w].st
                    /\ w \in Range(active_batch_send_workers) =>
                          /\ ~bw'[w].is_running_batch_thread
                          /\ ~bw'[w].is_running
        /\ \A w \in JobIds :
              (bw'[w].st = "shutdown" /\ bw[w].st # "shutdown") => bw[w].st = "finally"
      ]_vars

\* stop() has returned for every active worker, none has been waited for yet,
\* and a send task of a stopped worker is still inside its transport call
C21_Witness ==
    /\ ctl = "stop_wait"
    /\ stop_list = active_batch_send_workers
    /\ \E w \in Range(active_batch_send_workers) :
          /\ ~bw[w].is_running_batch_thread
          /\ bw[w].st \notin {"finally", "shutdown", "end"}
          /\ \E j \in bw[w].active_futures : task[j] = "sending"

\* C22: is_finished() is true exactly when the manager's FIFO is empty, no
\* task of the batch is pending or in flight and the completed count equals
\* the number of jobs ever submitted; the completed count never exceeds that
\* number; and a manager whose FIFO held jobs when the worker was stopped is
\* never finished afterwards.
C22_IsFinishedExact ==
    \A w \in JobIds :
        LET r == bw[w]
        IN /\ is_finished(r) <=>
                 /\ r.job_queue = <<>>
                 /\ \A j \in Range(r.job_batch) :
                       task[j] \notin {"pending", "acquire", "sending"}
                 /\ r.completed_jobs_count = r.total_jobs_submitted_to_q
           /\ r.completed_jobs_count <= r.total_jobs_submitted_to_q
           /\ r.fifo_left_at_stop => ~is_finished(r)

\* a batch of two jobs has been sent to the end: the poll loop is left with
\* is_finished() true, both jobs completed
C22_Witness ==
    \E w \in JobIds :
        /\ bw[w].st = "exit"
        /\ bw[w].is_running_batch_thread
        /\ bw[w].total_jobs_submitted_to_q = 2
        /\ is_finished(bw[w])

\* C25: when a batch worker emits its finished signal, completed_in_batch
\* equals the manager's completed_jobs_count, on natural completion and when
\* the worker was stopped while it polled for results.
C25_DrainedResultsCounted ==
    [][ \A w \in JobIds :
          (RunEmitFinished(w) \/ (RunAfterLoad(w) /\ bw'[w].st = "finally"))
            => bw[w].completed_in_batch = bw[w].completed_jobs_count ]_vars

\* job j of worker w leaves the manager's FIFO and becomes a future of the pool
AdmittedToPool(w, j) ==
    /\ j \in Range(bw[w].job_queue)
    /\ j \notin Range(bw'[w].job_queue)
    /\ j \in bw'[w].active_futures

\* C26: once stop() of a batch worker has returned, no job that is still in
\* the FIFO of its manager is admitted to the pool, whatever the batch thread
\* was doing when stop() ran.
C26_NoAdmissionAfterStop ==
    [][ \A w \in JobIds : \A j \in JobIds :
          (bw[w].st \notin {"none", "end"} /\ ~bw[w].is_running_batch_thread)
            => ~AdmittedToPool(w, j) ]_vars

\* C27: the manager's stop() admits nothing while it runs and after it has
\* returned, returns only when no task of its pool is running or waiting, and
\* a task that has started is never ended from outside: it leaves the running
\* states only by returning or raising.
C27_ManagerStopDrains ==
    [][ /\ \A w \in JobIds : RunShutdownDone(w) =>
              \A j \in Range(bw[w].job_batch) :
                  /\ ~InFlight(task[j])
                  /\ task'[j] \notin {"pending", "acquire", "sending"}
        /\ \A w \in JobIds : \A j \in JobIds :
              bw[w].st \in {"shutdown", "end"} => ~AdmittedToPool(w, j)
        /\ \A j \in JobIds :
              InFlight(task[j]) => task'[j] \in {"acquire", "sending", "ok", "fail", "fault"}
      ]_vars

\* stop() of a manager is about to return: the worker was stopped by the user,
\* jobs are left in the FIFO, a task of the pool ran to its end, none is running
C27_Witness ==
    \E w \in JobIds :
        /\ bw[w].st = "shutdown"
        /\ ~bw[w].is_running_batch_thread
        /\ bw[w].job_queue # <<>>
        /\ \E j \in bw[w].active_futures : task[j] = "ok"
        /\ \A j \in Range(bw[w].job_batch) : ~InFlight(task[j])

\* ---- transport kinds (specification SpecKinds) ----

\* C12: every job of a batch is executed by the transport function of its own
\* kind: whenever a send task is inside the batch's transport function (waiting
\* in acquire or performing the call), that function is the one that matches
\* the type of the task's job.
C12_TransportMatchesKind ==
    \A j \in JobIds : InFlight(task[j]) => RoutedByType(j)

\* C16: after stop() has completed, with the finished signals of the stopped
\* workers handled and their threads ended, the orchestrator is Idle: neither
\* Active nor Paused, and the campaign has been finalized; also when stop()
\* was called with no batch worker active.
C16_IdleAfterStop ==
    ( /\ ctl = "idle"
      /\ last_stop # "none"
      /\ pending_signals = <<>>
      /\ \A w \in JobIds : bw[w].st \in {"none", "end"} )
    => ( /\ ~queue_processing_active
         /\ ~is_paused_flag
         /\ finalized )

DispatchedFromPosition0 ==
    /\ Len(active_batch_send_workers') = Len(active_batch_send_workers) + 1
    /\ active_batch_send_workers'[Len(active_batch_send_workers')] = email_job_queue[1]

Counting == {w \in JobIds : bw[w].st \in {"load", "after_load", "start", "loop", "pop",
                                          "submit", "polled", "exit"}}

RECURSIVE SumOver(_, _)
SumOver(f, S) ==
    IF S = {} THEN 0
    ELSE LET x == CHOOSE y \in S : TRUE IN f[x] + SumOver(f, S \ {x})

\* C15: a transport-reported failure and a task fault are each counted once
\* as completed and as failed, and neither aborts the batch or the campaign:
\* in a campaign that is not stopped, every task of a batch that has ended is
\* counted once in completed_in_batch, as successful or as failed; the
\* successful counts add up to the transport calls that returned success (so
\* every other ended task is counted as failed); a worker with failures keeps
\* running; and the finalized campaign has passed every job of the list to a
\* transport function and counted it as processed.
C15_FailuresCountedOnce ==
    /\ \A w \in JobIds :
          /\ bw[w].completed_in_batch = bw[w].successful_in_batch + bw[w].failed_in_batch
          /\ w \in Counting =>
                /\ bw[w].completed_in_batch =
                       Cardinality({j \in Range(bw[w].job_batch) : task[j] = "drained"})
                /\ bw[w].is_running_batch_thread
    /\ transport_ok =
          total_emails_successful_overall
            + SumOver([i \in DOMAIN pending_signals |->
                          pending_signals[i].successful_in_batch], DOMAIN pending_signals)
            + SumOver([w \in JobIds |-> bw[w].successful_in_batch], Counting)
            + Cardinality({j \in JobIds : task[j] = "ok"})
    /\ finalized =>
          /\ \A j \in Range(email_job_queue) : sent[j] = 1
          /\ total_emails_processed_overall = Len(email_job_queue)

\* a batch has counted one failed job and is about to count a task whose
\* function raised, with jobs of the campaign still undispatched
C15_Witness ==
    \E w \in JobIds :
        /\ bw[w].st = "polled"
        /\ bw[w].failed_in_batch = 1
        /\ bw[w].successful_in_batch = 0
        /\ \E j \in Range(bw[w].completed_results) : task[j] = "fault"
        /\ current_job_index_for_dispatch < Len(email_job_queue)

\* the campaign has been finalized with every job of the list counted as
\* processed, and the orchestrator is neither active nor paused
C29_Finalized ==
    /\ finalized
    /\ ~queue_processing_active
    /\ ~is_paused_flag
    /\ total_emails_processed_overall = Len(email_job_queue)

PendingCompleted ==
    SumOver([i \in DOMAIN pending_signals |-> pending_signals[i].completed_in_batch],
            DOMAIN pending_signals)

\* C28: a batch worker emits its finished signal once in a run of run(): none
\* before the end of its poll loop, one from then on; on_batch_worker_finished
\* takes one signal, adds its counts to the aggregate and leaves the worker
\* out of the active set, so that the aggregate and the queued signals always
\* add up to the counts emitted; and when a campaign that is still active is
\* finalized, every dispatched batch has emitted and the aggregate processed
\* count is the sum of the completed counts emitted.
C28_SignalOnceFoldedOnce ==
    [][ /\ \A w \in JobIds :
              /\ bw'[w].st \in {"load", "after_load", "start", "loop", "pop", "submit",
                                "polled", "exit"} => bw'[w].signals_emitted = 0
              /\ bw'[w].st \in {"finally", "shutdown"} => bw'[w].signals_emitted = 1
              /\ RunShutdownDone(w) => bw[w].signals_emitted = 1
        /\ total_emails_processed_overall' + PendingCompleted' = completed_emitted'
        /\ BatchWorkerFinished =>
              /\ Head(pending_signals).w \notin Range(active_batch_send_workers')
              /\ pending_signals' = Tail(pending_signals)
              /\ total_emails_processed_overall' =
                     total_emails_processed_overall + Head(pending_signals).completed_in_batch
        /\ (~finalized /\ finalized' /\ queue_processing_active) =>
              /\ pending_signals' = <<>>
              /\ Counting = {}
              /\ total_emails_processed_overall' = completed_emitted'
      ]_vars

\* a campaign of two batches was finalized while active, with both batches counted
C28_Witness ==
    /\ finalized
    /\ stop_clicks = 0
    /\ batch_size_for_main_workers = 1
    /\ Len(email_job_queue) = 2
    /\ completed_emitted = 2
    /\ total_emails_processed_overall = 2
    /\ pending_signals = <<>>

\* the step calls finalize_overall_queue_processing: from the timer-driven
\* dispatch, from on_batch_worker_finished, or from the resume click
FinalizeInvoked ==
    \/ /\ TimerDispatch
       /\ queue_processing_active /\ ~is_paused_flag
       /\ current_job_index_for_dispatch >= Len(email_job_queue)
       /\ active_batch_send_workers = <<>>
    \/ /\ BatchWorkerFinished
       /\ ~(queue_processing_active /\ ~is_paused_flag)
       /\ active_batch_send_workers' = <<>>
       /\ (current_job_index_for_dispatch >= Len(email_job_queue) \/ ~queue_processing_active)
    \/ /\ TogglePauseResume
       /\ is_paused_flag
       /\ current_job_index_for_dispatch >= Len(email_job_queue)
       /\ active_batch_send_workers = <<>>

\* C30: finalize_overall_queue_processing is called at most once in a campaign
\* run: it is never called while the campaign is already finalized (no prepare
\* and so no start has come since the last call).
C30_FinalizeAtMostOnce ==
    [][ FinalizeInvoked => ~finalized ]_vars

C32_ResumeDispatchesOrFinalizes ==
    [][ (TogglePauseResume /\ is_paused_flag) =>
          /\ ~is_paused_flag'
          /\ IF current_job_index_for_dispatch < Len(email_job_queue)
                \/ active_batch_send_workers # <<>>
             THEN /\ pending_timers' = pending_timers + 1
                  /\ queue_processing_active'
                  /\ UNCHANGED << finalized, current_job_index_for_dispatch,
                                  active_batch_send_workers, bw >>
             ELSE /\ finalized'
                  /\ ~queue_processing_active'
                  /\ pending_timers' = pending_timers
      ]_vars

\* the resume click has just been handled: the dispatch it scheduled is
\* pending and the second batch has not been dispatched yet (one dispatch so
\* far and its worker still active, so no finished batch set the timer)
C32_Witness ==
    /\ stop_clicks = 0
    /\ current_job_index_for_dispatch < Len(email_job_queue)
    /\ last_handler = "other"
    /\ queue_processing_active /\ ~is_paused_flag
    /\ pending_timers = 1
    /\ current_job_index_for_dispatch = batch_size_for_main_workers
    /\ Len(active_batch_send_workers) = 1

\* C33: within one batch the jobs leave the manager's FIFO in the order in
\* which add_job put them there: a job is admitted to the pool only when
\* every job added before it has been admitted, whatever the order in which
\* the tasks complete.
C33_FifoAdmission ==
    [][ \A w \in JobIds : \A q \in 1..Len(bw[w].job_batch) :
          AdmittedToPool(w, bw[w].job_batch[q]) =>
              \A p \in 1..(q - 1) : bw[w].job_batch[p] \notin Range(bw'[w].job_queue)
      ]_vars

\* the second job of a batch of three completed before the first, and the
\* third job has been admitted in its place
C33_Witness ==
    \E w \in JobIds :
        /\ Len(bw[w].job_batch) = 3
        /\ bw[w].job_queue = <<>>
        /\ task[bw[w].job_batch[1]] = "sending"
        /\ task[bw[w].job_batch[2]] = "drained"
        /\ bw[w].job_batch[3] \in bw[w].active_futures
        /\ bw[w].cfg = MaxConcurrency

\* ---- the stop handler (specification SpecOneStop) ----

\* C39: action_stop_queue_processing_and_clear always terminates: once it has
\* signalled the workers it waits for each of them a bounded time, then it
\* returns with the active list and the job list cleared, even if a send
\* task in flight never finishes.
C39_StopTerminates ==
    (ctl = "stop_wait") ~>
        (ctl = "idle" /\ active_batch_send_workers = <<>> /\ email_job_queue = <<>>)

\* stop() has returned and cleared the lists while a send task is still in
\* flight
C39_Witness ==
    /\ ctl = "idle"
    /\ last_stop # "none"
    /\ stop_clicks = 1
    /\ active_batch_send_workers = <<>>
    /\ email_job_queue = <<>>
    /\ \E j \in JobIds : InFlight(task[j])

\* ---- boundary tags (specification SpecTags) ----

\* C13: within the preparation of one job every occurrence of the same
\* boundary tag text resolves to the identical value, in whichever template it
\* occurs: 'To', subject, from name, HTML body, plain body, custom header.
C13_BoundaryTagStable ==
    \A t \in BoundaryTags :
        Cardinality(UNION {resolved_values[slot][t] : slot \in SlotNames}) <= 1

\* ---- spintax (specification SpecSpintax) ----

\* C23: process_spintax_in_text always returns a text, and for every random
\* draw "{A|B}" gives exactly "A" or "B", a text without braces is returned
\* unchanged, and the nested "{A|{B|C}}" gives one of "A", "B", "C".
C23_SpintaxCoversOptions ==
    spintax_pc = "done" =>
        /\ spintax_result \in Seq(SpintaxAlphabet \cup {"C"})
        /\ spintax_text = FlatExample
              => spintax_result \in {<< "A" >>, << "B" >>}
        /\ (\A i \in DOMAIN spintax_text : spintax_text[i] \notin {"{", "}"})
              => spintax_result = spintax_text
        /\ spintax_text = NestedExample
              => spintax_result \in {<< "A" >>, << "B" >>, << "C" >>}

\* the nested text has been resolved through its inner group to "C"
C23_Witness ==
    /\ spintax_pc = "done"
    /\ spintax_text = NestedExample
    /\ spintax_result = << "C" >>

\* the text has an innermost brace pair with a "|" in it
HasChoiceGroup(text) ==
    \E i, j \in DOMAIN text :
        /\ i < j
        /\ text[i] = "{"
        /\ text[j] = "}"
        /\ \A k \in (i + 1)..(j - 1) : text[k] \notin {"{", "}"}
        /\ \E k \in (i + 1)..(j - 1) : text[k] = "|"

\* C34: a brace pair without "|" is left as it is and processing goes on
\* behind it: the text returned has no innermost "{x|y}" group left, and
\* "{A}{A|B}" gives "{A}A" or "{A}B".
C34_AdvancesPastStrayBraces ==
    spintax_pc = "done" =>
        /\ ~HasChoiceGroup(spintax_result)
        /\ spintax_text = StrayBraceExample
              => spintax_result \in {<< "{", "A", "}", "A" >>, << "{", "A", "}", "B" >>}

\* ---- rate limiter pool (specification SpecPool) ----

\* C24: a generic-SMTP job is loaded with the limiter registered under its
\* nickname at that moment, jobs of one nickname that are loaded or attempted
\* hold the same limiter instance, and a job whose nickname has no limiter is
\* still queued and attempted, without throttling.
C24_AttachesRegisteredSharedLimiter ==
    [][ /\ \A w \in PoolWorkers : LoadSmtpJob(w) =>
              /\ pool_workers[w].nickname \in DOMAIN rate_limiters_pool =>
                    pool_workers'[w].rate_limiter = rate_limiters_pool[pool_workers[w].nickname]
              /\ pool_workers[w].nickname \notin DOMAIN rate_limiters_pool =>
                    pool_workers'[w].rate_limiter = 0
              /\ pool_workers'[w].st = "queued"
        /\ \A w \in PoolWorkers : AttemptSmtpJob(w) =>
              pool_workers'[w].throttled_by = pool_workers[w].rate_limiter
        /\ \A w1, w2 \in DOMAIN pool_workers' :
              ( /\ pool_workers'[w1].st \in {"queued", "attempted"}
                /\ pool_workers'[w2].st \in {"queued", "attempted"}
                /\ pool_workers'[w1].nickname = pool_workers'[w2].nickname
                /\ pool_workers'[w1].rate_limiter # 0
                /\ pool_workers'[w2].rate_limiter # 0 )
              => pool_workers'[w1].rate_limiter = pool_workers'[w2].rate_limiter
      ]_vars

\* ---- rendering of one job (specification SpecRender) ----

\* C35: the passes run in the order data, context, tags, spintax: a key of both
\* the row and the context takes the row's value; a context placeholder or a
\* tag inside a row value is resolved; and the final subject, which spintax
\* produced, comes out of a later template as it is (the spintax pass of that
\* template apart): no placeholder or tag in it is resolved again.
C35_ResolutionOrder ==
    (email_job_dict # EmptyDict /\ email_job_dict.pc = "prepared") =>
        /\ (/\ email_job_dict.subject_template = ContextExample
            /\ email_job_dict.row_data_dict = << << << "e", "m", "a", "i", "l", "_", "i", "d" >>, << "A" >> >> >>)
               => email_job_dict.subject = << "A" >>
        /\ (/\ email_job_dict.subject_template = << "{", "{", "k", "}", "}" >>
            /\ email_job_dict.row_data_dict = << << << "k" >>, << "{", "{", "e", "m", "a", "i", "l", "_", "i", "d", "}", "}" >> >> >>)
               => email_job_dict.subject = GeneratedJobId
        /\ (/\ email_job_dict.subject_template = << "{", "{", "k", "}", "}" >>
            /\ email_job_dict.row_data_dict = << << << "k" >>, << "{", "{", "[", "t", "o", "]", "}", "}" >> >> >>)
               => email_job_dict.subject = PrimaryRecipient
        /\ (/\ email_job_dict.body_plain_template = SubjectPlaceholder
            /\ email_job_dict.row_data_dict = <<>>)
               => email_job_dict.plainBody =
                      process_spintax_in_text(email_job_dict.subject,
                                              email_job_dict.choices)

\* C36: a data placeholder is replaced by the row's value character for
\* character, whatever the value is: "x{{ K }}y" with the value v for the
\* key k gives "x", v, "y".
C36_DataValueLiteral ==
    (/\ email_job_dict # EmptyDict
     /\ email_job_dict.pc # "subject"
     /\ email_job_dict.subject_template = PlaceholderExample
     /\ Len(email_job_dict.row_data_dict) = 1
     /\ email_job_dict.row_data_dict[1][1] = << "k" >>
     /\ \A i \in DOMAIN email_job_dict.row_data_dict[1][2] :
            email_job_dict.row_data_dict[1][2][i] \in ValueAlphabet)
        => email_job_dict.subject_after_placeholders_tags =
               << "x" >> \o email_job_dict.row_data_dict[1][2] \o << "y" >>

\* C37: the dynamic tags are a closed set: a tag with an unlisted name, with a
\* charset that is no family of CHAR_SETS, or with a length outside 1..1024
\* is left in the text as it is.
C37_TagsClosedSet ==
    (email_job_dict # EmptyDict /\ email_job_dict.pc # "subject") =>
        /\ email_job_dict.subject_template \in UnlistedTags
               => email_job_dict.subject_after_placeholders_tags =
                      email_job_dict.subject_template
        /\ \A p \in TagPrefixes, c \in TagCharsets,
              n \in TagLengths \cup BoundaryLengths :
               (/\ email_job_dict.subject_template = VarLenTag(p, c, n)
                /\ \/ ~DictHas(CHAR_SETS, c)
                   \/ ~(0 < ParseInt(n) /\ ParseInt(n) <= MaxTagLength))
                   => email_job_dict.subject_after_placeholders_tags =
                          email_job_dict.subject_template

\* ---- recipients (specification SpecRecipients) ----

\* C14: a job whose final recipient list is empty is never appended to the
\* campaign job list, never admitted to a batch and never passed to a
\* transport function; every job of the job list and every test-send job has
\* a non-empty recipient list.
C14_NoJobWithoutRecipients ==
    /\ \A j \in JobIds :
          (\/ j \in Range(email_job_queue)
           \/ \E w \in JobIds : j \in Range(bw[w].job_batch)
           \/ task[j] # "none"
           \/ sent[j] > 0) => recipients_to_list[j] # <<>>
    /\ \A i \in DOMAIN active_test_email_workers : active_test_email_workers[i] # <<>>

\* a prepare created a job with an empty final recipient list and did not
\* append it; the job of another row was appended and sent, and a test-send
\* followed
C14_Witness ==
    /\ rows_without_recipients > 0
    /\ email_job_queue # <<>>
    /\ \E j \in Range(email_job_queue) : sent[j] > 0
    /\ active_test_email_workers # <<>>

\* ---- AdvancedRateLimiter ----

Max(a, b) == IF a > b THEN a ELSE b

Callers == 1..NumCallers

\* the control path (GUI thread) as a holder of the limiter's lock
ControlPath == NumCallers + 1

\* a caller outside acquire; inside, deadline is start_time + timeout, and
\* under the lock now and rate are the values read for tokens_to_add; counted
\* tells that the call began under the configuration now in force, available
\* that a refill at the time of the call gives at least one token and the
\* call has not yet made an attempt
IdleCall == [pc |-> "idle", deadline |-> 0, now |-> 0, rate |-> 0, counted |-> FALSE, available |-> FALSE]

\* AdvancedRateLimiter.__init__(emails_per_second, burst_size) at time t
AdvancedRateLimiter(eps, burst, t) ==
    [ emails_per_second |-> Max(eps, MinRate),
      burst_size |-> Max(burst, MinBurst),
      tokens |-> burst * TokenScale,
      last_update |-> t ]

\* a refill that does not cap the bucket at burst_size
RefillUncapped(tk, lu, rate, burst, t) == tk + (t - lu) * rate

\* acquire, inside the lock: the token count after the refill at time t
Refill(tk, lu, rate, burst, t) == Min(burst * TokenScale, tk + (t - lu) * rate)

\* time passes
Tick ==
    /\ now < MaxTime
    /\ now' = now + 1
    /\ UNCHANGED << mainvars, tokens, last_update, emails_per_second, burst_size,
                    acquirers, reload_pc, reload_burst, granted, epoch_start, lock >>

\* a send task calls rate_limiter.acquire(timeout): start_time = time.time()
AcquireCall(c, timeout) ==
    /\ acquirers[c].pc = "idle"
    /\ acquirers' = [acquirers EXCEPT ![c] =
                        [IdleCall EXCEPT !.pc = "loop", !.deadline = now + timeout,
                                         !.counted = TRUE,
                                         !.available =
                                             Refill(tokens, last_update,
                                                    emails_per_second, burst_size,
                                                    now) >= TokenScale]]
    /\ epoch_start' = IF epoch_start = -1 THEN now ELSE epoch_start
    /\ UNCHANGED << mainvars, tokens, last_update, emails_per_second, burst_size,
                    now, reload_pc, reload_burst, granted, lock >>

\* acquire: the loop condition time.time() - start_time < timeout, that is
\* time.time() < start_time + timeout; when it
\* fails the call returns False
AcquireLoop(c) ==
    /\ acquirers[c].pc = "loop"
    /\ acquirers' = [acquirers EXCEPT ![c] =
                        IF now < acquirers[c].deadline
                        THEN [acquirers[c] EXCEPT !.pc = "attempt",
                                                  !.available = FALSE]
                        ELSE IdleCall]
    /\ UNCHANGED << mainvars, tokens, last_update, emails_per_second, burst_size,
                    now, reload_pc, reload_burst, granted, epoch_start, lock >>

\* acquire: "with self.lock:" is entered when the lock is free; now =
\* time.time() and tokens_to_add = (now - self.last_update) *
\* self.emails_per_second are computed
AcquireEnterLock(c) ==
    /\ acquirers[c].pc = "attempt"
    /\ lock = 0
    /\ lock' = c
    /\ acquirers' = [acquirers EXCEPT ![c] =
                        [acquirers[c] EXCEPT !.pc = "locked", !.now = now,
                                             !.rate = emails_per_second]]
    /\ UNCHANGED << mainvars, tokens, last_update, emails_per_second, burst_size,
                    now, reload_pc, reload_burst, granted, epoch_start >>

\* acquire: the rest of the block under self.lock; the refill capped at
\* self.burst_size, then one token is taken and True returned, or the block is
\* left for the sleep; either way the lock is released
AcquireAttempt(c) ==
    /\ acquirers[c].pc = "locked"
    /\ LET refilled == Refill(tokens, last_update, acquirers[c].rate, burst_size,
                              acquirers[c].now)
       IN IF refilled >= TokenScale
          THEN /\ tokens' = refilled - TokenScale
               /\ granted' = IF acquirers[c].counted THEN granted + 1 ELSE granted
               /\ acquirers' = [acquirers EXCEPT ![c] = IdleCall]
          ELSE /\ tokens' = refilled
               /\ acquirers' = [acquirers EXCEPT ![c] =
                                   [acquirers[c] EXCEPT !.pc = "sleep", !.now = 0,
                                                        !.rate = 0]]
               /\ UNCHANGED granted
    /\ last_update' = acquirers[c].now
    /\ lock' = 0
    /\ UNCHANGED << mainvars, emails_per_second, burst_size, now,
                    reload_pc, reload_burst, epoch_start >>

\* acquire, after the block: sleep_duration = 0.01 if self.tokens < 1 else
\* 0.001 reads self.tokens, then time.sleep and the next round of the loop
AcquireSleep(c) ==
    /\ acquirers[c].pc = "sleep"
    /\ acquirers' = [acquirers EXCEPT ![c].pc = "loop"]
    /\ UNCHANGED << mainvars, tokens, last_update, emails_per_second, burst_size,
                    now, reload_pc, reload_burst, granted, epoch_start, lock >>

\* load_configured_generic_smtp_servers for a nickname already in the pool:
\* limiter.emails_per_second = effective_emails_per_sec (no lock is taken)
ReloadSetRate(eps, burst) ==
    /\ reload_pc = "idle"
    /\ emails_per_second' = eps
    /\ reload_burst' = burst
    /\ reload_pc' = "set_burst"
    /\ UNCHANGED << mainvars, tokens, last_update, burst_size, now, acquirers,
                    granted, epoch_start, lock >>

\* load_configured_generic_smtp_servers: limiter.burst_size = burst_allowance;
\* a new configuration is in force from here on, the calls in progress began
\* under another one
ReloadSetBurst ==
    /\ reload_pc = "set_burst"
    /\ burst_size' = reload_burst
    /\ reload_burst' = 0
    /\ reload_pc' = "idle"
    /\ granted' = 0
    /\ epoch_start' = -1
    /\ acquirers' = [c \in Callers |-> [acquirers[c] EXCEPT !.counted = FALSE]]
    /\ UNCHANGED << mainvars, tokens, last_update, emails_per_second, now, lock >>

\* a limiter constructed from a configured server, no campaign running
InitRL ==
    /\ MainInit
    /\ batch_size_for_main_workers = 1
    /\ max_concurrent_sends_per_batch_worker = 1
    /\ now = 0
    /\ \E eps \in 1..MaxRate, burst \in 0..MaxBurst :
          LET l == AdvancedRateLimiter(eps, burst, 0)
          IN /\ tokens = l.tokens
             /\ last_update = l.last_update
             /\ emails_per_second = l.emails_per_second
             /\ burst_size = l.burst_size
    /\ acquirers = [c \in Callers |-> IdleCall]
    /\ reload_pc = "idle"
    /\ reload_burst = 0
    /\ granted = 0
    /\ epoch_start = -1
    /\ lock = 0

NextRL ==
    \/ Tick
    \/ \E c \in Callers, timeout \in 0..MaxTimeout : AcquireCall(c, timeout)
    \/ \E c \in Callers : AcquireLoop(c)
    \/ \E c \in Callers : AcquireEnterLock(c)
    \/ \E c \in Callers : AcquireAttempt(c)
    \/ \E c \in Callers : AcquireSleep(c)
    \/ \E eps \in 1..MaxRate, burst \in 0..MaxBurst : ReloadSetRate(eps, burst)
    \/ ReloadSetBurst

SpecRL == InitRL /\ [][NextRL]_vars

\* ---- properties of the rate limiter (specification SpecRL) ----

\* C7: under one configuration (rate R = emails_per_second, burst B =
\* burst_size) the acquire calls that returned True over the duration T since
\* the first call never number more than B + R*T.
C7_Conservation ==
    reload_pc = "idle" =>
        IF epoch_start = -1
        THEN granted = 0
        ELSE granted * TokenScale
                 <= burst_size * TokenScale + emails_per_second * (now - epoch_start)

\* the bound is met: the burst was spent and a refilled token was granted later
C7_Witness ==
    /\ reload_pc = "idle"
    /\ epoch_start >= 0
    /\ now > epoch_start
    /\ granted >= 2
    /\ granted * TokenScale
           = burst_size * TokenScale + emails_per_second * (now - epoch_start)

\* C8: the token count is at most the limiter's current burst capacity.
C8_TokensWithinBurst == tokens <= burst_size * TokenScale

\* C19: the rate and the burst capacity of the limiter are at all times at
\* least their minimum positive values (rate >= 0.1 tokens per second, burst
\* >= 1), at construction and after a re-configuration from a reloaded list.
C19_RateAndBurstAtLeastMinimum ==
    /\ emails_per_second >= MinRate
    /\ burst_size >= MinBurst

\* C20: every read and every write of the limiter's state (tokens,
\* last_update, emails_per_second, burst_size) is made by a thread that holds
\* the limiter's lock: the statements of acquire in the send tasks, and the
\* two assignments of the re-configuration on the control path.
C20_StateAccessUnderLock ==
    [][ /\ \A c \in Callers :
              /\ AcquireEnterLock(c) => lock' = c
              /\ (AcquireAttempt(c) \/ AcquireSleep(c)) => lock = c
        /\ ( \/ \E eps \in 1..MaxRate, burst \in 0..MaxBurst : ReloadSetRate(eps, burst)
             \/ ReloadSetBurst )
              => lock = ControlPath ]_vars

\* C38: acquire returns True at once and takes exactly one token whenever a
\* token is available (after the refill) at the time of the call, for every
\* timeout, 0 included: it does not return False without an attempt when a
\* token was available at the call; an attempt that succeeds takes one token
\* and an attempt that fails takes none.
C38_AcquireTakesAvailableToken ==
    [][ \A c \in Callers :
          /\ (AcquireLoop(c) /\ acquirers'[c].pc = "idle")
                 => ~acquirers[c].available
          /\ (AcquireAttempt(c) /\ acquirers'[c].pc = "idle")
                 => tokens' = Refill(tokens, last_update, acquirers[c].rate,
                                     burst_size, acquirers[c].now) - TokenScale
          /\ (AcquireAttempt(c) /\ acquirers'[c].pc = "sleep")
                 => tokens' = Refill(tokens, last_update, acquirers[c].rate,
                                     burst_size, acquirers[c].now) ]_vars

====
